---- MODULE Spec2Model ----
(***************************************************************************)
(* A model of the styled-text buffer and navigation core of ter            *)
(* (src/src/book.rs): Line equality, Book::range_highlight, the chapter    *)
(* navigation defaults of trait Book, BookLoader's dispatch, the building  *)
(* of a Line, word selection, links, pattern search and style resolution;  *)
(* the reading history of Configuration (src/src/config.rs) and the font   *)
(* size commands of ReaderApp::setup_input (src/src/gui.rs).               *)
(*                                                                         *)
(* Characters are Unicode scalar values, written as their code points.     *)
(* A Line is a record [chars, styles]; a string is a sequence of code      *)
(* points.  Every operation is one action that records the call it served  *)
(* in `call` and what it returned in `ret`.                                *)
(***************************************************************************)
EXTENDS Integers, Sequences, FiniteSets, TLC

VARIABLES
    loaders,    \* BookLoader.loaders: the extension list of each loader, in order
    lines,      \* Book::lines(): the lines of the current chapter
    kind,       \* which goto_chapter the book has: "default" or "override"
    chapters,   \* what Book::chapter_count() returns
    current,    \* what Book::current_chapter() returns
    ln,         \* the Line that is built and queried
    call,       \* the call served last: [op |-> ..., arguments]
    ret,        \* what that call returned
    trace,      \* what that call asked of overridable methods, callbacks and the regex engine, in order
    pc,         \* where the call being served stands: Idle, or the locals of its loop
    configuration,  \* the Configuration: current, gui.font_size, the rows of history_db
    files       \* the paths that exist in the file system

vars == <<loaders, lines, kind, chapters, current, ln, call, ret, trace, pc,
          configuration, files>>

(***************************************************************************)
(* Bounds of the model.                                                    *)
(***************************************************************************)
MaxLen == 2        \* characters in a line of a book
MaxLines == 3      \* lines in a chapter
MaxChars == 2      \* characters in a line compared by ==
MaxChapters == 4   \* chapters in a book
MaxName == 3       \* characters in a filename
MaxStr == 3        \* characters in a string given to Line::concat
MaxStyles == 3     \* styles pushed to a line
MaxRows == 22      \* rows in the history table

\* The callback invocations of a scan that are recorded: more than a scan that
\* advances through a line can make
MaxCalls == MaxStr + 2

\* usize::MAX, the "open" end offset of range_highlight; the model's stand-in
\* is larger than every offset and length that occurs.
UsizeMax == 2147483647
\* '\n', the joiner of range_highlight
NL == 10

Min(a, b) == IF a <= b THEN a ELSE b

\* All sequences over S of length 0..n
SeqsUpTo(S, n) == UNION {[1..k -> S] : k \in 0..n}

NoCall == [op |-> "none"]
NoRet == [tag |-> "none"]
None == [tag |-> "None"]
Idle == [at |-> "idle"]

\* The caller takes the result of the call; the next call can be made
Return ==
    /\ call # NoCall
    /\ pc = Idle
    /\ call' = NoCall
    /\ ret' = NoRet
    /\ trace' = <<>>
    /\ UNCHANGED <<configuration, files, loaders, lines, kind, chapters, current, ln, pc>>

(***************************************************************************)
(* struct Line and impl PartialEq for Line                                 *)
(***************************************************************************)
\* Line::with_chars
with_chars(chars) == [chars |-> chars, styles |-> <<>>]

\* Line::len
len(line) == Len(line.chars)

\* The loop of eq: iter1 and iter2 both iterate self.chars
RECURSIVE EqLoop(_, _, _)
EqLoop(chars1, chars2, i) ==
    IF i > Len(chars1) THEN TRUE
    ELSE IF chars1[i] # chars2[i] THEN FALSE
    ELSE EqLoop(chars1, chars2, i + 1)

\* impl PartialEq for Line: fn eq(&self, other)
LineEq(self, other) ==
    IF len(self) # len(other) THEN FALSE
    ELSE EqLoop(self.chars, self.chars, 1)

\* The lines compared: characters 'a', 'b', with or without a style annotation
EqChars == {97, 98}
EqStyles == {<<>>, <<[style |-> "Link", target |-> "x", range |-> <<0, 0>>]>>}
EqLines == {[chars |-> c, styles |-> s] : c \in SeqsUpTo(EqChars, MaxChars), s \in EqStyles}

\* a == b
CallEq ==
    \E a \in EqLines, b \in EqLines :
        /\ call = NoCall
        /\ call' = [op |-> "eq", self |-> a, other |-> b]
        /\ ret' = [tag |-> "bool", value |-> LineEq(a, b)]
        /\ UNCHANGED <<configuration, files, loaders, lines, kind, chapters, current, ln, trace, pc>>

(***************************************************************************)
(* Book::range_highlight                                                   *)
(***************************************************************************)
\* Normalise with the lines swapped and the offsets left where they were
NormaliseOffsetsKept(from, to) ==
    IF from.line > to.line
    THEN <<to.line, from.offset, from.line, to.offset + 1>>
    ELSE IF from.line = to.line
    THEN IF from.offset >= to.offset
         THEN <<to.line, to.offset, from.line, from.offset + 1>>
         ELSE <<from.line, from.offset, to.line, to.offset + 1>>
    ELSE <<from.line, from.offset, to.line, to.offset + 1>>

\* The endpoints in canonical order: <<line1, offset1, line2, offset2>>
Normalise(from, to) ==
    IF from.line > to.line
    THEN <<to.line, to.offset, from.line, from.offset + 1>>
    ELSE IF from.line = to.line
    THEN IF from.offset >= to.offset
         THEN <<to.line, to.offset, from.line, from.offset + 1>>
         ELSE <<from.line, from.offset, to.line, to.offset + 1>>
    ELSE <<from.line, from.offset, to.line, to.offset + 1>>

\* The characters of `line` at the offsets lo..hi (a Rust range: empty when lo >= hi)
Slice(line, lo, hi) ==
    IF lo >= hi THEN <<>> ELSE [k \in 1..(hi - lo) |-> line.chars[lo + k]]

\* fn push_chars(line, range, text)
push_chars(line, lo, hi, text) ==
    (IF text # <<>> THEN Append(text, NL) ELSE text) \o Slice(line, lo, hi)

\* EndClamp keeping the caller's offset on the last line
EndClampOffsetKept(lines_count, line2, offset2) ==
    IF line2 >= lines_count
    THEN <<lines_count - 1, offset2>>
    ELSE <<line2, offset2>>

\* (line_to, offset_to) before the clamp to the last line's length
EndClamp(lines_count, line2, offset2) ==
    IF line2 >= lines_count
    THEN <<lines_count - 1, UsizeMax>>
    ELSE <<line2, offset2>>

\* for line in line1..line_to { push_chars(..); offset_from = 0 }: <<offset_from, text>>
\* (line indexes are 0-based, sequences 1-based)
RECURSIVE HighlightLoop(_, _, _, _, _)
HighlightLoop(ls, line, line_to, offset_from, text) ==
    IF line >= line_to THEN <<offset_from, text>>
    ELSE HighlightLoop(ls, line + 1, line_to, 0,
                       push_chars(ls[line + 1], offset_from, len(ls[line + 1]), text))

\* HighlightResult without the test for an empty text
HighlightResultAlways(line1, offset1, offset_to, line_to, selected_text) ==
    [tag |-> "Some", line |-> line1, start |-> offset1, end |-> offset_to,
     text |-> selected_text, line_to |-> line_to]

\* The end of range_highlight: no highlight for an empty text
HighlightResult(line1, offset1, offset_to, line_to, selected_text) ==
    IF Len(selected_text) = 0 THEN None
    ELSE [tag |-> "Some", line |-> line1, start |-> offset1, end |-> offset_to,
          text |-> selected_text, line_to |-> line_to]

\* What range_highlight selects in a collection that is not empty
Selection(ls, from, to) ==
    LET n == Normalise(from, to)
        e == EndClamp(Len(ls), n[3], n[4])
        line_to == e[1]
        loop == HighlightLoop(ls, n[1], line_to, n[2], <<>>)
        last_text == ls[line_to + 1]
        offset_to == Min(len(last_text), e[2])
    IN  [line1 |-> n[1], offset1 |-> n[2], line_to |-> line_to, offset_to |-> offset_to,
         text |-> push_chars(last_text, loop[1], offset_to, loop[2])]

range_highlight(ls, from, to) ==
    IF Len(ls) = 0 THEN None
    ELSE LET s == Selection(ls, from, to)
         IN  HighlightResult(s.line1, s.offset1, s.offset_to, s.line_to, s.text)

\* The character at offset j of line i of a book: every position holds a character
\* of its own, so a text determines the positions it was copied from
BookChar(i, j) == 97 + i * (MaxLen + 1) + j
BookLine(i, length) == with_chars([j \in 1..length |-> BookChar(i - 1, j - 1)])
\* The line collections: every count up to MaxLines, every length up to MaxLen
BookLines == {[i \in 1..Len(ls) |-> BookLine(i, ls[i])] : ls \in SeqsUpTo(0..MaxLen, MaxLines)}
\* Positions, also past the last line and past the end of a line
Positions == [line : 0..MaxLines, offset : 0..(MaxLen + 1)]

CallRangeHighlight ==
    \E from \in Positions, to \in Positions :
        /\ call = NoCall
        /\ call' = [op |-> "range_highlight", from |-> from, to |-> to]
        /\ ret' = range_highlight(lines, from, to)
        /\ UNCHANGED <<configuration, files, loaders, lines, kind, chapters, current, ln, trace, pc>>

(***************************************************************************)
(* trait Book: chapter navigation                                          *)
(***************************************************************************)
Some(v) == [tag |-> "Some", value |-> v]

\* DefaultGotoChapter accepting the index chapter_count
DefaultGotoChapterOffByOne(chapter_count, chapter_index) ==
    IF chapter_index > chapter_count THEN None ELSE Some(chapter_index)

\* The default Book::goto_chapter: Ok(None) or Ok(Some(chapter_index)); it has
\* nothing to assign
DefaultGotoChapter(chapter_count, chapter_index) ==
    IF chapter_index >= chapter_count THEN None ELSE Some(chapter_index)

\* goto_chapter of a book that overrides it (a format with several chapters):
\* it commits the new chapter.  <<result, current_chapter() afterwards>>
OverrideGotoChapter(chapter_count, current_chapter, chapter_index) ==
    IF chapter_index >= chapter_count THEN <<None, current_chapter>>
    ELSE <<Some(chapter_index), chapter_index>>

\* self.goto_chapter(chapter_index), dispatched on the book:
\* <<result, current_chapter() afterwards, the goto_chapter calls made>>
goto_chapter(k, chapter_count, current_chapter, chapter_index) ==
    IF k = "default"
    THEN <<DefaultGotoChapter(chapter_count, chapter_index), current_chapter,
           <<chapter_index>> >>
    ELSE OverrideGotoChapter(chapter_count, current_chapter, chapter_index)
         \o << <<chapter_index>> >>

\* prev_chapter wrapping around to the last chapter at chapter 0
prev_chapter_wraps(k, chapter_count, current_chapter) ==
    IF current_chapter = 0
    THEN goto_chapter(k, chapter_count, current_chapter, chapter_count - 1)
    ELSE goto_chapter(k, chapter_count, current_chapter, current_chapter - 1)

\* Book::prev_chapter
prev_chapter(k, chapter_count, current_chapter) ==
    IF current_chapter = 0 THEN <<None, current_chapter, <<>> >>
    ELSE goto_chapter(k, chapter_count, current_chapter, current_chapter - 1)

\* next_chapter stepping to the next chapter without asking goto_chapter
next_chapter_unchecked(k, chapter_count, current_chapter) ==
    IF k = "default" THEN <<Some(current_chapter + 1), current_chapter, <<>> >>
    ELSE <<Some(current_chapter + 1), current_chapter + 1, <<>> >>

\* Book::next_chapter
next_chapter(k, chapter_count, current_chapter) ==
    goto_chapter(k, chapter_count, current_chapter, current_chapter + 1)

\* The lines of chapter c of a book: c + 1 lines of one character (a chapter
\* switch replaces the line sequence)
ChapterLines(c) == [i \in 1..(c + 1) |-> BookLine(i, 1)]

\* Book::lines() when current_chapter() has become c
LinesAfter(c) == IF c = current THEN lines ELSE ChapterLines(c)

CallGotoChapter ==
    \E index \in 0..(MaxChapters + 1) :
        /\ call = NoCall
        /\ call' = [op |-> "goto_chapter", index |-> index]
        /\ ret' = goto_chapter(kind, chapters, current, index)[1]
        /\ current' = goto_chapter(kind, chapters, current, index)[2]
        /\ trace' = goto_chapter(kind, chapters, current, index)[3]
        /\ lines' = LinesAfter(goto_chapter(kind, chapters, current, index)[2])
        /\ UNCHANGED <<configuration, files, loaders, kind, chapters, ln, pc>>

CallPrevChapter ==
    /\ call = NoCall
    /\ call' = [op |-> "prev_chapter"]
    /\ ret' = prev_chapter(kind, chapters, current)[1]
    /\ current' = prev_chapter(kind, chapters, current)[2]
    /\ trace' = prev_chapter(kind, chapters, current)[3]
    /\ lines' = LinesAfter(prev_chapter(kind, chapters, current)[2])
    /\ UNCHANGED <<configuration, files, loaders, kind, chapters, ln, pc>>

CallNextChapter ==
    /\ call = NoCall
    /\ call' = [op |-> "next_chapter"]
    /\ ret' = next_chapter(kind, chapters, current)[1]
    /\ current' = next_chapter(kind, chapters, current)[2]
    /\ trace' = next_chapter(kind, chapters, current)[3]
    /\ lines' = LinesAfter(next_chapter(kind, chapters, current)[2])
    /\ UNCHANGED <<configuration, files, loaders, kind, chapters, ln, pc>>

(***************************************************************************)
(* trait Loader and BookLoader                                             *)
(***************************************************************************)
\* char::to_lowercase, on ASCII (the characters of FileChars): 'A'..'Z' become 'a'..'z'
Lower(ch) == IF ch \in 65..90 THEN ch + 32 ELSE ch

\* to_lowercase forgotten: the filename is compared as given
to_lowercase_skipped(str) == str

\* str::to_lowercase
to_lowercase(str) == [i \in 1..Len(str) |-> Lower(str[i])]

\* str::ends_with
ends_with(str, suffix) ==
    /\ Len(suffix) <= Len(str)
    /\ SubSeq(str, Len(str) - Len(suffix) + 1, Len(str)) = suffix

\* for extension in self.extensions() { if filename.ends_with(extension) .. }
RECURSIVE ExtensionLoop(_, _, _)
ExtensionLoop(extensions, filename, i) ==
    IF i > Len(extensions) THEN FALSE
    ELSE IF ends_with(filename, extensions[i]) THEN TRUE
    ELSE ExtensionLoop(extensions, filename, i + 1)

\* Loader::support
LoaderSupport(extensions, filename) ==
    ExtensionLoop(extensions, to_lowercase(filename), 1)

\* BookLoader::support: for loader in self.loaders.iter() { .. }
RECURSIVE SupportLoop(_, _, _)
SupportLoop(ls, filename, i) ==
    IF i > Len(ls) THEN FALSE
    ELSE IF LoaderSupport(ls[i], filename) THEN TRUE
    ELSE SupportLoop(ls, filename, i + 1)

BookLoaderSupport(ls, filename) == SupportLoop(ls, filename, 1)

\* LoadLoop falling back to the last loader when none supports the filename
RECURSIVE LoadLoopFallback(_, _, _)
LoadLoopFallback(ls, filename, i) ==
    IF i > Len(ls) THEN Len(ls)
    ELSE IF LoaderSupport(ls[i], filename) THEN i
    ELSE LoadLoopFallback(ls, filename, i + 1)

\* LoadLoop going on after a loader that supports the filename: the last
\* one that supports it is asked
RECURSIVE LoadLoopLast(_, _, _)
LoadLoopLast(ls, filename, i) ==
    IF i > Len(ls) THEN 0
    ELSE IF LoadLoopLast(ls, filename, i + 1) # 0 THEN LoadLoopLast(ls, filename, i + 1)
    ELSE IF LoaderSupport(ls[i], filename) THEN i
    ELSE 0

\* The loop of BookLoader::load: the index of the loader that is asked to load,
\* 0 when the loop ends without one
RECURSIVE LoadLoop(_, _, _)
LoadLoop(ls, filename, i) ==
    IF i > Len(ls) THEN 0
    ELSE IF LoaderSupport(ls[i], filename) THEN i
    ELSE LoadLoop(ls, filename, i + 1)

\* PostProcess letting the position one past the last character through
PostProcessOffByOne(book, reading) ==
    LET count == Len(book.lines)
        line == IF reading.line >= count THEN count - 1 ELSE reading.line
    IN  IF line < 0 THEN [tag |-> "panic"]
        ELSE LET chars == len(book.lines[line + 1])
             IN  [tag |-> "Ok",
                  book |-> book,
                  reading |-> [chapter |-> book.current_chapter,
                               line |-> line,
                               position |-> IF reading.position > chars
                                            THEN 0 ELSE reading.position]]

\* The post-processing of the loader's (book, reading) in BookLoader::load.
\* With no line, lines.len() - 1 overflows (a panic in a debug build) or wraps to
\* usize::MAX, and lines[usize::MAX] panics: every build panics.
PostProcess(book, reading) ==
    LET count == Len(book.lines)
        line == IF reading.line >= count THEN count - 1 ELSE reading.line
    IN  IF line < 0 THEN [tag |-> "panic"]
        ELSE LET chars == len(book.lines[line + 1])
             IN  [tag |-> "Ok",
                  book |-> book,
                  reading |-> [chapter |-> book.current_chapter,
                               line |-> line,
                               position |-> IF reading.position >= chars
                                            THEN 0 ELSE reading.position]]

\* LoadWith asking the next loader as well when the parse of loader i fails
LoadWithRetry(i, content, outcome) ==
    IF content \in {"File", "Path"} /\ outcome.kind = "open_err"
    THEN [tag |-> "Err", error |-> "open", invoked |-> <<>>, opened |-> TRUE]
    ELSE IF content \in {"File", "Path"} /\ outcome.kind = "read_err"
    THEN [tag |-> "Err", error |-> "read", invoked |-> <<i>>, opened |-> TRUE]
    ELSE IF outcome.kind = "parse_err"
    THEN [tag |-> "Err", error |-> "parse", invoked |-> <<i, i + 1>>,
          opened |-> content \in {"File", "Path"}]
    ELSE PostProcess(outcome.book, outcome.reading) @@
         [invoked |-> <<i>>, opened |-> content \in {"File", "Path"}]

\* Loader::load_file and load_buf of loader i, given what reading the file and
\* parsing the bytes give
LoadWith(i, content, outcome) ==
    IF content \in {"File", "Path"} /\ outcome.kind = "open_err"
    THEN [tag |-> "Err", error |-> "open", invoked |-> <<>>, opened |-> TRUE]
    ELSE IF content \in {"File", "Path"} /\ outcome.kind = "read_err"
    THEN [tag |-> "Err", error |-> "read", invoked |-> <<i>>, opened |-> TRUE]
    ELSE IF outcome.kind = "parse_err"
    THEN [tag |-> "Err", error |-> "parse", invoked |-> <<i>>,
          opened |-> content \in {"File", "Path"}]
    ELSE PostProcess(outcome.book, outcome.reading) @@
         [invoked |-> <<i>>, opened |-> content \in {"File", "Path"}]

\* BookLoader::load
BookLoaderLoad(ls, filename, content, outcome) ==
    LET i == LoadLoop(ls, filename, 1)
    IN  IF i = 0
        THEN [tag |-> "Err", error |-> "Not support open book",
              invoked |-> <<>>, opened |-> FALSE]
        ELSE LoadWith(i, content, outcome)

\* The characters of filenames and extensions: '.', 't', 'T'
FileChars == {46, 116, 84}
FileNames == SeqsUpTo(FileChars, MaxName)
\* The extension lists loaders declare, in lower case: [".t"], ["tt", "t"], [".."]
ExtensionLists == {<< <<46, 116>> >>, << <<116, 116>>, <<116>> >>, << <<46, 46>> >>}
\* impl Default for BookLoader: four loaders, in the order they are pushed
NumLoaders == 4
LoaderLists == [1..NumLoaders -> ExtensionLists]
Contents == {"File", "Path", "Buf"}

\* What the file system and the loader can answer
Failures(content) ==
    IF content = "Buf" THEN {[kind |-> "parse_err"]}
    ELSE {[kind |-> "open_err"], [kind |-> "read_err"], [kind |-> "parse_err"]}
Books == [lines : BookLines, current_chapter : 0..(MaxChapters - 1)]
Readings == [chapter : 0..(MaxChapters - 1), line : 0..(MaxLines + 1),
             position : 0..(MaxLen + 1)]
Loaded(books, readings) == [kind : {"ok"}, book : books, reading : readings]
\* One book of one line "ab" with the reading position at its start
PlainBook == [lines |-> <<BookLine(1, 2)>>, current_chapter |-> 0]
PlainReading == [chapter |-> 0, line |-> 0, position |-> 0]
NotAsked == [kind |-> "not_asked"]

\* load(filename, content, ..) with the loader answering one of `answers`
Load(filenames, answers) ==
    \E filename \in filenames, content \in Contents :
        /\ call = NoCall
        /\ IF LoadLoop(loaders, filename, 1) = 0
           THEN /\ call' = [op |-> "load", filename |-> filename, content |-> content,
                            outcome |-> NotAsked]
                /\ ret' = BookLoaderLoad(loaders, filename, content, NotAsked)
           ELSE \E outcome \in Failures(content) \cup answers :
                /\ call' = [op |-> "load", filename |-> filename, content |-> content,
                            outcome |-> outcome]
                /\ ret' = BookLoaderLoad(loaders, filename, content, outcome)
        /\ UNCHANGED <<configuration, files, loaders, lines, kind, chapters, current, ln, trace, pc>>

\* Loading any filename; the loader that is asked answers with a failure or
\* with the plain book
CallLoad == Load(FileNames, Loaded({PlainBook}, {PlainReading}))

\* Loading "t.t"; the loader answers with any book and any reading
CallLoadBook == Load({<<116, 46, 116>>}, Loaded(Books, Readings))

CallSupport ==
    \E filename \in FileNames :
        /\ call = NoCall
        /\ call' = [op |-> "support", filename |-> filename]
        /\ ret' = [tag |-> "bool", value |-> BookLoaderSupport(loaders, filename)]
        /\ UNCHANGED <<configuration, files, loaders, lines, kind, chapters, current, ln, trace, pc>>

(***************************************************************************)
(* Building a Line: Line::new, Line::concat, Line::push, Line::push_style. *)
(* A &str is its UTF-8 bytes; str::chars() decodes them.                   *)
(***************************************************************************)
\* char::len_utf8
len_utf8(ch) == IF ch < 128 THEN 1 ELSE IF ch < 2048 THEN 2 ELSE IF ch < 65536 THEN 3 ELSE 4

\* char::encode_utf8
encode_utf8(ch) ==
    IF ch < 128 THEN <<ch>>
    ELSE IF ch < 2048 THEN <<192 + (ch \div 64), 128 + (ch % 64)>>
    ELSE IF ch < 65536
         THEN <<224 + (ch \div 4096), 128 + ((ch \div 64) % 64), 128 + (ch % 64)>>
         ELSE <<240 + (ch \div 262144), 128 + ((ch \div 4096) % 64),
                128 + ((ch \div 64) % 64), 128 + (ch % 64)>>

\* The &str holding the scalar values of text: String::push of each
RECURSIVE Utf8(_)
Utf8(text) ==
    IF text = <<>> THEN <<>> ELSE encode_utf8(Head(text)) \o Utf8(Tail(text))

\* The width of the character whose first byte is b
WidthOfLead(b) == IF b < 128 THEN 1 ELSE IF b < 224 THEN 2 ELSE IF b < 240 THEN 3 ELSE 4

\* The scalar value encoded at byte i of str
DecodeAt(str, i) ==
    LET b == str[i]
        c(k) == str[i + k] - 128
    IN  IF b < 128 THEN b
        ELSE IF b < 224 THEN (b - 192) * 64 + c(1)
        ELSE IF b < 240 THEN (b - 224) * 4096 + c(1) * 64 + c(2)
        ELSE (b - 240) * 262144 + c(1) * 4096 + c(2) * 64 + c(3)

\* str::chars(): the scalar values of str from byte i on, in order
RECURSIVE CharsFrom(_, _)
CharsFrom(str, i) ==
    IF i > Len(str) THEN <<>>
    ELSE <<DecodeAt(str, i)>> \o CharsFrom(str, i + WidthOfLead(str[i]))

Chars(str) == CharsFrom(str, 1)

\* Line::new: push every character of str
new(str) == with_chars(Chars(str))

IsAsciiWhitespace(ch) == ch \in {9, 10, 12, 13, 32}

\* The loop of Line::concat with a newline that does not set ignore_whitespace
RECURSIVE ConcatLoopNoReset(_, _, _, _)
ConcatLoopNoReset(chars, cs, i, ignore_whitespace) ==
    IF i > Len(cs) THEN chars
    ELSE LET ch == cs[i] IN
         IF ch = 13 THEN ConcatLoopNoReset(chars, cs, i + 1, ignore_whitespace)
         ELSE IF ch = NL THEN ConcatLoopNoReset(chars, cs, i + 1, ignore_whitespace)
         ELSE IF ignore_whitespace /\ IsAsciiWhitespace(ch)
              THEN ConcatLoopNoReset(chars, cs, i + 1, ignore_whitespace)
              ELSE ConcatLoopNoReset(Append(chars, ch), cs, i + 1, FALSE)

\* The loop of Line::concat over the characters cs of str, from the i-th on
RECURSIVE ConcatLoop(_, _, _, _)
ConcatLoop(chars, cs, i, ignore_whitespace) ==
    IF i > Len(cs) THEN chars
    ELSE LET ch == cs[i] IN
         IF ch = 13 THEN ConcatLoop(chars, cs, i + 1, ignore_whitespace)
         ELSE IF ch = NL THEN ConcatLoop(chars, cs, i + 1, TRUE)
         ELSE IF ignore_whitespace /\ IsAsciiWhitespace(ch)
              THEN ConcatLoop(chars, cs, i + 1, ignore_whitespace)
              ELSE ConcatLoop(Append(chars, ch), cs, i + 1, FALSE)

\* Line::concat
concat(self, str) ==
    IF Len(str) = 0 THEN self
    ELSE [self EXCEPT !.chars = ConcatLoop(self.chars, Chars(str), 1, TRUE)]

\* Line::push that keeps NUL
push_nul_kept(self, ch) == [self EXCEPT !.chars = Append(self.chars, ch)]

\* Line::push
push(self, ch) ==
    IF ch = 0 THEN self ELSE [self EXCEPT !.chars = Append(self.chars, ch)]

\* Line::push_style
push_style(self, style, range) ==
    [self EXCEPT !.styles = Append(self.styles, <<style, range>>)]

\* The strings given to Line::new: NUL and characters of 1, 2, 3 and 4 bytes
NewChars == {0, 119, 233, 20013, 128444}
NewTexts == SeqsUpTo(NewChars, MaxChars)

\* "  \n\tword"
ConcatExample == <<32, 32, 10, 9, 119, 111, 114, 100>>

\* The strings given to Line::concat
ConcatChars == {10, 13, 32, 119, 20013}
ConcatTexts == SeqsUpTo(ConcatChars, MaxStr) \cup {ConcatExample}

\* The characters given to Line::push
PushChars == {0, 119, 128444}

Unit == [tag |-> "unit"]

CallNew ==
    \E text \in NewTexts :
        /\ call = NoCall
        /\ call' = [op |-> "new", str |-> text]
        /\ ln' = new(Utf8(text))
        /\ ret' = Unit
        /\ UNCHANGED <<configuration, files, loaders, lines, kind, chapters, current, trace, pc>>

CallConcat ==
    \E text \in ConcatTexts :
        /\ call = NoCall
        /\ len(ln) <= MaxChars
        /\ call' = [op |-> "concat", str |-> text]
        /\ ln' = concat(ln, Utf8(text))
        /\ ret' = Unit
        /\ UNCHANGED <<configuration, files, loaders, lines, kind, chapters, current, trace, pc>>

CallPush ==
    \E ch \in PushChars :
        /\ call = NoCall
        /\ len(ln) <= MaxChars
        /\ call' = [op |-> "push", ch |-> ch]
        /\ ln' = push(ln, ch)
        /\ ret' = Unit
        /\ UNCHANGED <<configuration, files, loaders, lines, kind, chapters, current, trace, pc>>

CallLen ==
    /\ call = NoCall
    /\ call' = [op |-> "len"]
    /\ ret' = [tag |-> "usize", value |-> len(ln)]
    /\ UNCHANGED <<configuration, files, loaders, lines, kind, chapters, current, ln, trace, pc>>

(***************************************************************************)
(* Word selection: TEXT_SELECTION_SPLITTER, slice::binary_search and       *)
(* Line::word_at_offset.                                                   *)
(***************************************************************************)
\* The array, element by element in the order of the source
TEXT_SELECTION_SPLITTER == <<
    32, 35, 37, 38, 40, 41, 43, 44, 45, 46,
    47, 59, 60, 61, 62, 63, 64, 91, 92, 9,
    93, 95, 123, 125, 126, 8212, 8216, 8217, 8220, 8221,
    8230, 9472, 11823, 12288, 12289, 12290, 12296, 12297, 12298, 12299,
    12300, 12301, 12302, 12303, 12304, 12305, 12308, 12309, 12310, 12311,
    65047, 65048, 65049, 65073, 65077, 65078, 65079, 65080, 65081, 65082,
    65083, 65084, 65085, 65086, 65087, 65088, 65089, 65090, 65091, 65092,
    65281, 65283, 65285, 65286, 65288, 65289, 65290, 65291, 65292, 65293,
    65295, 65306, 65307, 65309, 65311, 65339, 65341, 65344, 65371, 65372,
    65373, 65374>>

Ok(v) == [tag |-> "Ok", value |-> v]
Err(v) == [tag |-> "Err", value |-> v]

\* slice::binary_search as the standard library has it from 1.52 to 1.81:
\* the loop over left, right and size
RECURSIVE BinarySearchLoop(_, _, _, _, _)
BinarySearchLoop(slice, x, left, right, size) ==
    IF left >= right THEN Err(left)
    ELSE LET mid == left + (size \div 2)
             e == slice[mid + 1]
         IN  IF e < x THEN BinarySearchLoop(slice, x, mid + 1, right, right - (mid + 1))
             ELSE IF e > x THEN BinarySearchLoop(slice, x, left, mid, mid - left)
             ELSE Ok(mid)

\* slice::binary_search as the standard library has it since 1.82: the loop
\* over base and size, and one comparison at the end
RECURSIVE BinarySearchBase(_, _, _, _)
BinarySearchBase(slice, x, base, size) ==
    IF size > 1
    THEN LET half == size \div 2
             mid == base + half
         IN  BinarySearchBase(slice, x, IF slice[mid + 1] > x THEN base ELSE mid,
                              size - half)
    ELSE base

\* slice::binary_search; std is "loop" or "base", the standard library built with
binary_search(slice, x, std) ==
    IF std = "loop" THEN BinarySearchLoop(slice, x, 0, Len(slice), Len(slice))
    ELSE IF Len(slice) = 0 THEN Err(0)
    ELSE LET base == BinarySearchBase(slice, x, 0, Len(slice))
             e == slice[base + 1]
         IN  IF e = x THEN Ok(base) ELSE Err(base + (IF e < x THEN 1 ELSE 0))

StdVersions == {"loop", "base"}

\* TEXT_SELECTION_SPLITTER.binary_search(ch).is_ok()
IsSplitter(ch, std) == binary_search(TEXT_SELECTION_SPLITTER, ch, std).tag = "Ok"

\* for idx in (0..offset).rev(): from moves down to idx until a splitter
RECURSIVE WordFrom(_, _, _, _)
WordFrom(chars, from, idx, std) ==
    IF idx < 0 THEN from
    ELSE IF IsSplitter(chars[idx + 1], std) THEN from
    ELSE WordFrom(chars, idx, idx - 1, std)

\* while let Some(ch) = self.chars.get(to + 1): to moves up until a splitter
RECURSIVE WordTo(_, _, _)
WordTo(chars, to, std) ==
    IF to + 1 >= Len(chars) THEN to
    ELSE IF IsSplitter(chars[to + 2], std) THEN to
    ELSE WordTo(chars, to + 1, std)

\* Line::word_at_offset
word_at_offset(self, offset, std) ==
    IF offset >= Len(self.chars) THEN None
    ELSE IF IsSplitter(self.chars[offset + 1], std) THEN Some(<<offset, offset>>)
    ELSE Some(<<WordFrom(self.chars, offset, offset - 1, std),
                WordTo(self.chars, offset, std)>>)

\* "hello, world"
HelloWorld == <<104, 101, 108, 108, 111, 44, 32, 119, 111, 114, 108, 100>>

\* The lines asked for a word: letters, a comma, a tab, a backslash
WordChars == {104, 44, 9, 92}
WordLines == {new(Utf8(text)) : text \in SeqsUpTo(WordChars, MaxStr) \cup {HelloWorld}}

\* The characters tested for membership: every element of the array and
\* characters around them
ProbeChars ==
    {TEXT_SELECTION_SPLITTER[i] : i \in 1..Len(TEXT_SELECTION_SPLITTER)}
        \cup {0, 10, 31, 33, 48, 91, 94, 104, 8213, 12291, 65374 + 1, 128444}

CallWordAtOffset ==
    \E offset \in 0..(len(ln) + 1), std \in StdVersions :
        /\ call = NoCall
        /\ call' = [op |-> "word_at_offset", offset |-> offset, std |-> std]
        /\ ret' = word_at_offset(ln, offset, std)
        /\ UNCHANGED <<configuration, files, loaders, lines, kind, chapters, current, ln, trace, pc>>

CallIsSplitter ==
    \E ch \in ProbeChars, std \in StdVersions :
        /\ call = NoCall
        /\ call' = [op |-> "is_splitter", ch |-> ch, std |-> std]
        /\ ret' = [tag |-> "bool", value |-> IsSplitter(ch, std)]
        /\ UNCHANGED <<configuration, files, loaders, lines, kind, chapters, current, ln, trace, pc>>

(***************************************************************************)
(* Links: Line::link_at and Line::link_iter over the styles pushed.        *)
(***************************************************************************)
\* TextStyle::Link(target) and a style of another kind
LinkStyle(target) == [kind |-> "Link", target |-> target]
TitleStyle(title) == [kind |-> "Title", title |-> title]

\* struct Link
Link(index, target, range) == [index |-> index, target |-> target, range |-> range]

\* Line::link_at that takes a style of any kind for a link
link_at_any_style(self, link_index) ==
    IF link_index < Len(self.styles)
    THEN LET style == self.styles[link_index + 1] IN
         Some(Link(link_index, IF style[1].kind = "Link" THEN style[1].target
                               ELSE style[1].title, style[2]))
    ELSE None

\* Line::link_at
link_at(self, link_index) ==
    IF link_index < Len(self.styles) /\ self.styles[link_index + 1][1].kind = "Link"
    THEN LET style == self.styles[link_index + 1] IN
         Some(Link(link_index, style[1].target, style[2]))
    ELSE None

\* What the callback f answers for a link: (stop, found)
Answer(f, link) ==
    <<f[link.index].stop, IF f[link.index].found THEN Some(link.index) ELSE None>>

\* The loop of Line::link_iter that does not return when the callback says stop
RECURSIVE LinkIterLoopNoStop(_, _, _, _, _)
LinkIterLoopNoStop(self, indeies, k, f, visited) ==
    IF k > Len(indeies) THEN <<None, visited>>
    ELSE LET index == indeies[k]
             style == self.styles[index + 1]
         IN  IF style[1].kind = "Link"
             THEN LET link == Link(index, style[1].target, style[2]) IN
                  LinkIterLoopNoStop(self, indeies, k + 1, f, Append(visited, link))
             ELSE LinkIterLoopNoStop(self, indeies, k + 1, f, visited)

\* The loop of Line::link_iter from the k-th of indeies on: the result and
\* the links the callback was given, in order
RECURSIVE LinkIterLoop(_, _, _, _, _)
LinkIterLoop(self, indeies, k, f, visited) ==
    IF k > Len(indeies) THEN <<None, visited>>
    ELSE LET index == indeies[k]
             style == self.styles[index + 1]
         IN  IF style[1].kind = "Link"
             THEN LET link == Link(index, style[1].target, style[2]) IN
                  IF Answer(f, link)[1]
                  THEN <<Answer(f, link)[2], Append(visited, link)>>
                  ELSE LinkIterLoop(self, indeies, k + 1, f, Append(visited, link))
             ELSE LinkIterLoop(self, indeies, k + 1, f, visited)

\* Line::link_iter
link_iter(self, forward, f) ==
    LET n == Len(self.styles)
        indeies == IF forward THEN [k \in 1..n |-> k - 1] ELSE [k \in 1..n |-> n - k]
    IN  LinkIterLoop(self, indeies, 1, f, <<>>)

\* The styles pushed: two links and a title
StyleInputs == {<<LinkStyle("x"), <<2, 5>>>>, <<LinkStyle("y"), <<0, 1>>>>,
                <<TitleStyle("x"), <<2, 5>>>>}

\* The answers of a callback
Answers == [stop : BOOLEAN, found : BOOLEAN]

CallPushStyle ==
    \E input \in StyleInputs :
        /\ call = NoCall
        /\ Len(ln.styles) < MaxStyles
        /\ call' = [op |-> "push_style", style |-> input[1], range |-> input[2]]
        /\ ln' = push_style(ln, input[1], input[2])
        /\ ret' = Unit
        /\ UNCHANGED <<configuration, files, loaders, lines, kind, chapters, current, trace, pc>>

CallLinkAt ==
    \E link_index \in 0..MaxStyles :
        /\ call = NoCall
        /\ call' = [op |-> "link_at", link_index |-> link_index]
        /\ ret' = link_at(ln, link_index)
        /\ UNCHANGED <<configuration, files, loaders, lines, kind, chapters, current, ln, trace, pc>>

CallLinkIter ==
    \E forward \in BOOLEAN, f \in [0..(Len(ln.styles) - 1) -> Answers] :
        /\ call = NoCall
        /\ call' = [op |-> "link_iter", forward |-> forward, f |-> f]
        /\ ret' = link_iter(ln, forward, f)[1]
        /\ trace' = link_iter(ln, forward, f)[2]
        /\ UNCHANGED <<configuration, files, loaders, lines, kind, chapters, current, ln, pc>>

(***************************************************************************)
(* Pattern search: the regular expression engine (fancy_regex), which      *)
(* reports byte offsets into the &str it is given, find_pattern and        *)
(* Line::search_pattern_once.                                              *)
(***************************************************************************)
\* A Regex is its syntax tree: a literal, a sequence, an ordered choice, a
\* greedy repetition
Lit(ch) == [op |-> "lit", ch |-> ch]
Cat(left, right) == [op |-> "cat", left |-> left, right |-> right]
Alt(left, right) == [op |-> "alt", left |-> left, right |-> right]
Star(arg) == [op |-> "star", arg |-> arg]
Plus(arg) == [op |-> "plus", arg |-> arg]

\* The character positions where a match of p that begins at position i of
\* cs can end, in the engine's order of preference (leftmost-first: the
\* earlier branch, the longer repetition)
RECURSIVE Ends(_, _, _)
RECURSIVE EndsFromEach(_, _, _, _)
Ends(p, cs, i) ==
    CASE p.op = "lit" -> IF i < Len(cs) /\ cs[i + 1] = p.ch THEN <<i + 1>> ELSE <<>>
      [] p.op = "cat" -> EndsFromEach(p.right, cs, Ends(p.left, cs, i), 1)
      [] p.op = "alt" -> Ends(p.left, cs, i) \o Ends(p.right, cs, i)
      [] p.op = "star" ->
            EndsFromEach(p, cs, SelectSeq(Ends(p.arg, cs, i), LAMBDA e : e > i), 1)
                \o <<i>>
      [] p.op = "plus" -> EndsFromEach(Star(p.arg), cs, Ends(p.arg, cs, i), 1)

EndsFromEach(p, cs, ends, k) ==
    IF k > Len(ends) THEN <<>>
    ELSE Ends(p, cs, ends[k]) \o EndsFromEach(p, cs, ends, k + 1)

\* The byte offset of character position i of cs
RECURSIVE ByteOffset(_, _)
ByteOffset(cs, i) == IF i = 0 THEN 0 ELSE ByteOffset(cs, i - 1) + len_utf8(cs[i])

\* The character position of byte offset pos of text, a character boundary
CharPosition(text, pos) ==
    Cardinality({k \in 1..pos : text[k] < 128 \/ text[k] >= 192})

\* struct Match
Match(start, end) == [start |-> start, end |-> end]

\* The leftmost match that begins at character position i or later
RECURSIVE FindFrom(_, _, _)
FindFrom(regex, cs, i) ==
    IF i > Len(cs) THEN None
    ELSE IF Ends(regex, cs, i) # <<>>
         THEN Some(Match(ByteOffset(cs, i), ByteOffset(cs, Head(Ends(regex, cs, i)))))
         ELSE FindFrom(regex, cs, i + 1)

\* Byte offset b of text is a character boundary
is_char_boundary(text, b) ==
    b = Len(text) \/ (b < Len(text) /\ (text[b + 1] < 128 \/ text[b + 1] >= 192))

\* The suffixes of text that begin at a character boundary
Suffixes(text) ==
    {SubSeq(text, b + 1, Len(text)) : b \in {c \in 0..Len(text) : is_char_boundary(text, c)}}

\* A pattern together with the engine's answers to find_from_pos(_, 0) on
\* the suffixes of text: they depend on the pattern and the text alone, and
\* the loop of a scan looks them up
Compiled(regex, text) ==
    [op |-> "compiled", pattern |-> regex,
     answers |-> [t \in Suffixes(text) |-> FindFrom(regex, Chars(t), 0)]]

\* Regex::find_from_pos
find_from_pos(regex, text, pos) ==
    IF regex.op = "compiled"
    THEN IF pos = 0 /\ text \in DOMAIN regex.answers THEN regex.answers[text]
         ELSE FindFrom(regex.pattern, Chars(text), CharPosition(text, pos))
    ELSE FindFrom(regex, Chars(text), CharPosition(text, pos))

\* next_utf8: the byte offset of the character after the one at offset i
next_utf8(text, i) == IF i >= Len(text) THEN i + 1 ELSE i + WidthOfLead(text[i + 1])

\* Matches::next, repeated until it returns None: the matches from last_end
\* on, an empty match right after a match being passed over
RECURSIVE MatchesFrom(_, _, _, _)
MatchesFrom(regex, text, last_end, last_match) ==
    IF last_end > Len(text) THEN <<>>
    ELSE LET found == find_from_pos(regex, text, last_end) IN
         IF found = None THEN <<>>
         ELSE LET mat == found.value IN
              IF mat.start = mat.end
              THEN IF Some(mat.end) = last_match
                   THEN MatchesFrom(regex, text, next_utf8(text, mat.end), last_match)
                   ELSE <<mat>> \o MatchesFrom(regex, text, next_utf8(text, mat.end),
                                              Some(mat.end))
              ELSE <<mat>> \o MatchesFrom(regex, text, mat.end, Some(mat.end))

\* Regex::find_iter
find_iter(regex, text) == MatchesFrom(regex, text, 0, None)

\* char_index_for_byte: the character offset of byte offset byte_index of
\* text, which holds chars characters; None inside a character
char_index_for_byte(text, chars, byte_index) ==
    IF byte_index = 0 THEN Some(0)
    ELSE IF byte_index = Len(text) THEN Some(chars)
    ELSE IF byte_index < Len(text)
            /\ (text[byte_index + 1] < 128 \/ text[byte_index + 1] >= 192)
         THEN Some(CharPosition(text, byte_index))
         ELSE None

Panic == [tag |-> "panic"]

\* find_pattern that takes the byte offsets of the match for character offsets
find_pattern_bytes(line, chars, regex, start_offset, rev) ==
    LET all == find_iter(regex, line)
        m == IF rev THEN (IF all = <<>> THEN None ELSE Some(all[Len(all)]))
             ELSE find_from_pos(regex, line, 0)
    IN  IF m = None THEN <<None, <<>>>>
        ELSE <<Some(<<m.value.start + start_offset, m.value.end + start_offset>>),
               <<m.value>>>>

\* find_pattern: the range found, and the match the engine reported
find_pattern(line, chars, regex, start_offset, rev) ==
    LET all == find_iter(regex, line)
        m == IF rev THEN (IF all = <<>> THEN None ELSE Some(all[Len(all)]))
             ELSE find_from_pos(regex, line, 0)
    IN  IF m = None THEN <<None, <<>>>>
        ELSE LET match_start == char_index_for_byte(line, chars, m.value.start)
                 match_end == char_index_for_byte(line, chars, m.value.end)
             IN  IF match_start = None \/ match_end = None THEN <<Panic, <<m.value>>>>
                 ELSE <<Some(<<match_start.value + start_offset,
                               match_end.value + start_offset>>), <<m.value>>>>

\* a - b in usize arithmetic that wraps
wrapping_sub(a, b) == IF a >= b THEN a - b ELSE UsizeMax - (b - a - 1)

unwrap_or(option, default) == IF option = None THEN default ELSE option.value

\* Line::search_pattern_once that searches forwards whatever rev is
search_pattern_once_forwards(self, regex, start, stop, rev, build) ==
    LET from == unwrap_or(start, 0)
        upto == unwrap_or(stop, len(self))
    IN  IF from < upto /\ upto > len(self) THEN <<Panic, <<>>>>
        ELSE IF upto < from /\ build = "debug" THEN <<Panic, <<>>>>
        ELSE find_pattern(Utf8(SubSeq(self.chars, from + 1, upto)),
                          wrapping_sub(upto, from), regex, from, FALSE)

\* Line::search_pattern_once: self.chars[index] panics past the end of the
\* line; stop - start panics below zero in a debug build and wraps in a
\* release build
search_pattern_once(self, regex, start, stop, rev, build) ==
    LET from == unwrap_or(start, 0)
        upto == unwrap_or(stop, len(self))
    IN  IF from < upto /\ upto > len(self) THEN <<Panic, <<>>>>
        ELSE IF upto < from /\ build = "debug" THEN <<Panic, <<>>>>
        ELSE find_pattern(Utf8(SubSeq(self.chars, from + 1, upto)),
                          wrapping_sub(upto, from), regex, from, rev)

\* The patterns searched for: a+, a*, aa, a|a中, (中|🖼)+
Patterns == {Plus(Lit(97)), Star(Lit(97)), Cat(Lit(97), Lit(97)),
             Alt(Lit(97), Cat(Lit(97), Lit(20013))),
             Plus(Alt(Lit(20013), Lit(128444)))}

\* "aa bb aaa"
SearchExample == <<97, 97, 32, 98, 98, 32, 97, 97, 97>>

\* The lines searched: characters of 1, 2, 3 and 4 bytes
SearchChars == {97, 233, 20013, 128444}
SearchLines ==
    {new(Utf8(text)) : text \in SeqsUpTo(SearchChars, MaxStr) \cup {SearchExample}}

\* Option<usize> up to n
Options(n) == {None} \cup {Some(v) : v \in 0..n}

Builds == {"debug", "release"}

CallSearchPatternOnce ==
    \E regex \in Patterns, start, stop \in Options(len(ln) + 1), rev \in BOOLEAN,
       build \in Builds :
        /\ call = NoCall
        /\ call' = [op |-> "search_pattern_once", regex |-> regex, start |-> start,
                    stop |-> stop, rev |-> rev]
        /\ ret' = search_pattern_once(ln, regex, start, stop, rev, build)[1]
        /\ trace' = search_pattern_once(ln, regex, start, stop, rev, build)[2]
        /\ UNCHANGED <<configuration, files, loaders, lines, kind, chapters, current, ln, pc>>

(***************************************************************************)
(* Line::search_pattern: the scan of a whole line, one callback per match. *)
(* Its loop is two steps, the search for the next match and the callback.  *)
(***************************************************************************)
\* impl Display for Line: the &str of the line's characters
to_string(self) == Utf8(self.chars)

\* byte_index_for_char: the byte offset of character offset char_index of
\* text, which holds chars characters; None past the end
byte_index_for_char(text, chars, char_index) ==
    IF char_index = 0 THEN Some(0)
    ELSE IF char_index = chars THEN Some(Len(text))
    ELSE IF char_index < chars /\ char_index < Len(Chars(text))
         THEN Some(ByteOffset(Chars(text), char_index))
         ELSE None

\* enum SearchError
Canceled == [error |-> "Canceled"]
Custom(msg) == [error |-> "Custom", msg |-> msg]
SearchErrors == {Canceled, Custom("chapter changed")}

\* The callbacks: one that never fails, and those that fail with an error at
\* their fail_at-th invocation
Callbacks ==
    {[fail_at |-> 0, error |-> Canceled]} \cup [fail_at : 1..MaxCalls, error : SearchErrors]

\* What the callback f answers at its n-th invocation
CallbackResult(f, n) == IF f.fail_at = n THEN Err(f.error) ELSE Ok(Unit)

\* while let Some(range) = find_pattern(slice, chars, &regex, start, false):
\* the result of the call and the position after the search
WhileLet(self, regex, at) ==
    LET text == to_string(self)
        slice == SubSeq(text, at.slice + 1, Len(text))
        found == find_pattern(slice, len(self), regex, at.start, FALSE)[1]
    IN  IF found = None THEN <<Ok(Unit), Idle>>
        ELSE IF found = Panic THEN <<Panic, Idle>>
        ELSE <<NoRet, [at |-> "callback", start |-> found.value[2],
                       slice |-> at.slice, range |-> found.value]>>

\* The body of the loop with a callback whose error is dropped
LoopBodyErrorDropped(self, f, at, n) ==
    LET text == to_string(self)
        byte_index == byte_index_for_char(text, len(self), at.start)
    IN  IF byte_index = None THEN <<Ok(Unit), Idle>>
        ELSE <<NoRet, [at |-> "while", start |-> at.start, slice |-> byte_index.value]>>

\* f(&text, range)? and the new slice: the result of the call and the
\* position after the n-th invocation of the callback
LoopBody(self, f, at, n) ==
    LET text == to_string(self)
        byte_index == byte_index_for_char(text, len(self), at.start)
    IN  IF CallbackResult(f, n).tag = "Err" THEN <<CallbackResult(f, n), Idle>>
        ELSE IF byte_index = None THEN <<Ok(Unit), Idle>>
        ELSE <<NoRet, [at |-> "while", start |-> at.start, slice |-> byte_index.value]>>

CallSearchPattern ==
    \E regex \in Patterns, f \in Callbacks :
        /\ call = NoCall
        /\ call' = [op |-> "search_pattern", regex |-> Compiled(regex, to_string(ln)),
                    f |-> f]
        /\ ret' = NoRet
        /\ trace' = <<>>
        /\ pc' = [at |-> "while", start |-> 0, slice |-> 0]
        /\ UNCHANGED <<configuration, files, loaders, lines, kind, chapters, current, ln>>

SearchPatternWhile ==
    /\ pc.at = "while"
    /\ ret' = WhileLet(ln, call.regex, pc)[1]
    /\ pc' = WhileLet(ln, call.regex, pc)[2]
    /\ UNCHANGED <<configuration, files, loaders, lines, kind, chapters, current, ln, call, trace>>

\* The ranges given to the callback are recorded up to MaxCalls of them; a
\* callback that fails does so among these
SearchPatternCallback ==
    /\ pc.at = "callback"
    /\ LET n == Len(trace) + 1 IN
        /\ trace' = IF n > MaxCalls THEN trace ELSE Append(trace, pc.range)
        /\ ret' = LoopBody(ln, call.f, pc, n)[1]
        /\ pc' = LoopBody(ln, call.f, pc, n)[2]
    /\ UNCHANGED <<configuration, files, loaders, lines, kind, chapters, current, ln, call>>

(***************************************************************************)
(* Style resolution: Line::char_style_at.  The styles are the variants of  *)
(* TextStyle the function stores a value of; FontSize and FontWeight only  *)
(* feed FontScale::update and FontWeight::update and are not pushed here.  *)
(***************************************************************************)
FontFamilyStyle(families) == [kind |-> "FontFamily", families |-> families]
ImageStyle(image) == [kind |-> "Image", image |-> image]
BorderStyle(border_lines) == [kind |-> "Border", lines |-> border_lines]
ColorStyle(color) == [kind |-> "Color", color |-> color]
BackgroundColorStyle(color) == [kind |-> "BackgroundColor", color |-> color]
DecorationStyle(d) == [kind |-> "Decoration", decoration |-> d]

\* range.contains(&char_index) of a Range<usize>
contains(range, char_index) == range[1] <= char_index /\ char_index < range[2]

\* The colours of the caller: the default foreground and the link colour
Colors == [color |-> "default", link |-> "link"]

\* One turn of the loop for the style at position k (index k - 1) of styles;
\* acc is <<char_style, new_color>>
RECURSIVE CharStyleLoopLinkForced(_, _, _, _, _, _)
CharStyleLoopLinkForced(styles, k, char_index, custom_color, colors, acc) ==
    IF k = 0 THEN acc
    ELSE LET style == styles[k][1]
             range == styles[k][2]
             cs == acc[1]
             new_color == acc[2]
             next ==
                 IF ~contains(range, char_index) THEN acc
                 ELSE CASE style.kind = "FontFamily" ->
                              <<[cs EXCEPT !.font_family = Some(style.families)], new_color>>
                        [] style.kind = "Image" ->
                              <<[cs EXCEPT !.image = Some(style.image)], new_color>>
                        [] style.kind = "Link" ->
                              <<[cs EXCEPT !.link = Some(<<k - 1, range>>)],
                                Some(colors.link)>>
                        [] style.kind = "Border" ->
                              <<[cs EXCEPT !.border = Some(<<range, style>>)], new_color>>
                        [] style.kind = "Color" ->
                              <<cs, IF custom_color THEN Some(style.color) ELSE new_color>>
                        [] style.kind = "BackgroundColor" ->
                              <<IF custom_color
                                THEN [cs EXCEPT !.background = Some(style.color)]
                                ELSE cs, new_color>>
                        [] style.kind = "Title" ->
                              <<[cs EXCEPT !.title = Some(style.title)], new_color>>
                        [] OTHER -> acc
         IN  CharStyleLoopLinkForced(styles, k - 1, char_index, custom_color, colors, next)

RECURSIVE CharStyleLoop(_, _, _, _, _, _)
CharStyleLoop(styles, k, char_index, custom_color, colors, acc) ==
    IF k = 0 THEN acc
    ELSE LET style == styles[k][1]
             range == styles[k][2]
             cs == acc[1]
             new_color == acc[2]
             next ==
                 IF ~contains(range, char_index) THEN acc
                 ELSE CASE style.kind = "FontFamily" ->
                              <<[cs EXCEPT !.font_family = Some(style.families)], new_color>>
                        [] style.kind = "Image" ->
                              <<[cs EXCEPT !.image = Some(style.image)], new_color>>
                        [] style.kind = "Link" ->
                              <<[cs EXCEPT !.link = Some(<<k - 1, range>>)],
                                IF new_color = None THEN Some(colors.link) ELSE new_color>>
                        [] style.kind = "Border" ->
                              <<[cs EXCEPT !.border = Some(<<range, style>>)], new_color>>
                        [] style.kind = "Color" ->
                              <<cs, IF custom_color THEN Some(style.color) ELSE new_color>>
                        [] style.kind = "BackgroundColor" ->
                              <<IF custom_color
                                THEN [cs EXCEPT !.background = Some(style.color)]
                                ELSE cs, new_color>>
                        [] style.kind = "Title" ->
                              <<[cs EXCEPT !.title = Some(style.title)], new_color>>
                        [] OTHER -> acc
         IN  CharStyleLoop(styles, k - 1, char_index, custom_color, colors, next)

\* Line::char_style_at: the styles are visited from the last pushed to the
\* first pushed, then the colour found replaces the default one
char_style_at(self, char_index, custom_color, colors) ==
    LET char_style == [font_family |-> None, color |-> colors.color,
                       background |-> None, border |-> None, link |-> None,
                       image |-> None, title |-> None]
        acc == CharStyleLoop(self.styles, Len(self.styles), char_index,
                             custom_color, colors, <<char_style, None>>)
    IN  IF acc[2] # None THEN [acc[1] EXCEPT !.color = acc[2].value] ELSE acc[1]

\* The styles pushed: two of each kind, the first over 0..2, the second
\* over 1..3, so that both cover index 1 and each covers an index alone
KindInputs ==
    {<<TitleStyle("t1"), <<0, 2>>>>, <<TitleStyle("t2"), <<1, 3>>>>,
     <<BorderStyle("b1"), <<0, 2>>>>, <<BorderStyle("b2"), <<1, 3>>>>,
     <<FontFamilyStyle(1), <<0, 2>>>>, <<FontFamilyStyle(2), <<1, 3>>>>,
     <<ImageStyle("i1"), <<0, 2>>>>, <<ImageStyle("i2"), <<1, 3>>>>,
     <<LinkStyle("x"), <<0, 2>>>>, <<LinkStyle("y"), <<1, 3>>>>,
     <<ColorStyle("red"), <<0, 2>>>>, <<ColorStyle("blue"), <<1, 3>>>>,
     <<BackgroundColorStyle("red"), <<0, 2>>>>,
     <<BackgroundColorStyle("blue"), <<1, 3>>>>,
     <<DecorationStyle("d1"), <<0, 2>>>>}

CallPushKind ==
    \E input \in KindInputs :
        /\ call = NoCall
        /\ Len(ln.styles) < MaxStyles
        /\ call' = [op |-> "push_style", style |-> input[1], range |-> input[2]]
        /\ ln' = push_style(ln, input[1], input[2])
        /\ ret' = Unit
        /\ UNCHANGED <<configuration, files, loaders, lines, kind, chapters, current, trace, pc>>

\* The indexes asked are covered by the first range only, by both, by the
\* second only, by none
CallCharStyleAt ==
    \E char_index \in 0..3, custom_color \in BOOLEAN :
        /\ call = NoCall
        /\ call' = [op |-> "char_style_at", char_index |-> char_index,
                    custom_color |-> custom_color]
        /\ ret' = char_style_at(ln, char_index, custom_color, Colors)
        /\ UNCHANGED <<configuration, files, loaders, lines, kind, chapters, current, ln, trace, pc>>

(***************************************************************************)
(* Configuration (src/src/config.rs): the reading history.  A filename is  *)
(* a number; a row of the history table is [row_id, filename, ts].         *)
(***************************************************************************)
\* impl Default for GuiConfiguration, no current book, an empty history
DefaultConfiguration == [current |-> None, gui |-> [font_size |-> 20], history_db |-> <<>>]

\* The rows of S with the greatest ts
Newest(S) == {r \in S : \A q \in S : q.ts <= r.ts}

\* select .. from history order by ts desc: every order the database may
\* return the rows in (rows with equal ts come in any order)
RECURSIVE OrderByTsDesc(_)
OrderByTsDesc(S) ==
    IF S = {} THEN {<<>>}
    ELSE UNION {{<<r>> \o rest : rest \in OrderByTsDesc(S \ {r})} : r \in Newest(S)}

\* QueryLoop without `if list.len() >= limit { break; }`
RECURSIVE QueryLoopNoLimit(_, _, _, _, _, _)
QueryLoopNoLimit(iter, i, limit, exclude, exists, list) ==
    IF i > Len(iter) THEN list
    ELSE LET info == iter[i]
         IN  IF info.filename \notin exists
             THEN QueryLoopNoLimit(iter, i + 1, limit, exclude, exists, list)
             ELSE IF exclude # None /\ exclude.value = info.filename
             THEN QueryLoopNoLimit(iter, i + 1, limit, exclude, exists, list)
             ELSE QueryLoopNoLimit(iter, i + 1, limit, exclude, exists, Append(list, info))

\* for info in iter { .. } of Configuration::query
RECURSIVE QueryLoop(_, _, _, _, _, _)
QueryLoop(iter, i, limit, exclude, exists, list) ==
    IF i > Len(iter) THEN list
    ELSE LET info == iter[i]
         IN  IF info.filename \notin exists
             THEN QueryLoop(iter, i + 1, limit, exclude, exists, list)
             ELSE IF exclude # None /\ exclude.value = info.filename
             THEN QueryLoop(iter, i + 1, limit, exclude, exists, list)
             ELSE IF Len(list) + 1 >= limit THEN Append(list, info)
             ELSE QueryLoop(iter, i + 1, limit, exclude, exists, Append(list, info))

\* Configuration::query, given the rows as the statement returns them
query(iter, limit, exclude, exists) == Ok(QueryLoop(iter, 1, limit, exclude, exists, <<>>))

\* Configuration::history
history(self, iter, exists) == query(iter, 20, self.current, exists)

\* Configuration::latest_reading: the last entry of the list is popped
latest_reading(self, iter, exists) ==
    LET list == query(iter, 1, None, exists).value
    IN  Ok(IF Len(list) = 0 THEN None ELSE Some(list[Len(list)]))

\* How the timestamps of the rows run: rising with the row id, falling, or
\* rising with the last two rows saved in the same second
TsOf(order, n, i) ==
    CASE order = "rising" -> i
      [] order = "falling" -> n + 1 - i
      [] order = "tie" -> IF i = n /\ n > 1 THEN n - 1 ELSE i

\* The history tables: n rows, row i for file i
Histories ==
    {[i \in 1..n |-> [row_id |-> i, filename |-> i, ts |-> TsOf(order, n, i)]] :
        n \in 0..MaxRows, order \in {"rising", "falling", "tie"}}

\* The rows of a table as a set
Rows(db) == {db[i] : i \in 1..Len(db)}

CallHistory ==
    \E iter \in OrderByTsDesc(Rows(configuration.history_db)) :
        /\ call = NoCall
        /\ call' = [op |-> "history"]
        /\ ret' = history(configuration, iter, files)
        /\ trace' = iter
        /\ UNCHANGED <<configuration, files, loaders, lines, kind, chapters, current, ln, pc>>

CallLatestReading ==
    \E iter \in OrderByTsDesc(Rows(configuration.history_db)) :
        /\ call = NoCall
        /\ call' = [op |-> "latest_reading"]
        /\ ret' = latest_reading(configuration, iter, files)
        /\ trace' = iter
        /\ UNCHANGED <<configuration, files, loaders, lines, kind, chapters, current, ln, pc>>

(***************************************************************************)
(* ReaderApp::setup_input (src/src/gui.rs): the font size commands         *)
(***************************************************************************)
MIN_FONT_SIZE == 20
MAX_FONT_SIZE == 50

\* if font_size < MAX_FONT_SIZE { font_size += 2 }
ZoomIn(font_size) == IF font_size < MAX_FONT_SIZE THEN font_size + 2 ELSE font_size

\* if font_size > MIN_FONT_SIZE { font_size -= 2 }
ZoomOut(font_size) == IF font_size > MIN_FONT_SIZE THEN font_size - 2 ELSE font_size

\* input.consume_key(Modifiers::CTRL, Key::ArrowUp): the font size changes
\* and no GuiCommand is produced
CtrlArrowUp ==
    /\ call = NoCall
    /\ call' = [op |-> "ctrl_up", before |-> configuration.gui.font_size]
    /\ configuration' = [configuration EXCEPT
                             !.gui.font_size = ZoomIn(configuration.gui.font_size)]
    /\ ret' = None
    /\ UNCHANGED <<files, loaders, lines, kind, chapters, current, ln, trace, pc>>

\* input.consume_key(Modifiers::CTRL, Key::ArrowDown)
CtrlArrowDown ==
    /\ call = NoCall
    /\ call' = [op |-> "ctrl_down", before |-> configuration.gui.font_size]
    /\ configuration' = [configuration EXCEPT
                             !.gui.font_size = ZoomOut(configuration.gui.font_size)]
    /\ ret' = None
    /\ UNCHANGED <<files, loaders, lines, kind, chapters, current, ln, trace, pc>>

\* input.zoom_delta() != 1.0: a pinch, greater than 1.0 to zoom in
ZoomDelta ==
    \E zoom_in \in BOOLEAN :
        /\ call = NoCall
        /\ call' = [op |-> IF zoom_in THEN "zoom_in" ELSE "zoom_out",
                    before |-> configuration.gui.font_size]
        /\ configuration' = [configuration EXCEPT
                                 !.gui.font_size =
                                     IF zoom_in THEN ZoomIn(configuration.gui.font_size)
                                     ELSE ZoomOut(configuration.gui.font_size)]
        /\ ret' = None
        /\ UNCHANGED <<files, loaders, lines, kind, chapters, current, ln, trace, pc>>

(***************************************************************************)
(* Specifications                                                          *)
(***************************************************************************)
\* Line equality: no book, no loader
InitEq ==
    /\ loaders = <<>>
    /\ lines = <<>>
    /\ kind = "default"
    /\ chapters = 1
    /\ current = 0
    /\ call = NoCall
    /\ ret = NoRet
    /\ ln = with_chars(<<>>)
    /\ trace = <<>>
    /\ pc = Idle
    /\ configuration = DefaultConfiguration
    /\ files = {}

NextEq == CallEq \/ Return

SpecEq == InitEq /\ [][NextEq]_vars

\* A book of one chapter with any line collection
InitHighlight ==
    /\ loaders = <<>>
    /\ lines \in BookLines
    /\ kind = "default"
    /\ chapters = 1
    /\ current = 0
    /\ call = NoCall
    /\ ret = NoRet
    /\ ln = with_chars(<<>>)
    /\ trace = <<>>
    /\ pc = Idle
    /\ configuration = DefaultConfiguration
    /\ files = {}

NextHighlight == CallRangeHighlight \/ Return

SpecHighlight == InitHighlight /\ [][NextHighlight]_vars

\* A book with any number of chapters, and either goto_chapter
InitChapter ==
    /\ loaders = <<>>
    /\ kind \in {"default", "override"}
    /\ chapters \in 1..MaxChapters
    /\ current \in 0..(chapters - 1)
    /\ lines = ChapterLines(current)
    /\ call = NoCall
    /\ ret = NoRet
    /\ ln = with_chars(<<>>)
    /\ trace = <<>>
    /\ pc = Idle
    /\ configuration = DefaultConfiguration
    /\ files = {}

NextChapter == CallGotoChapter \/ CallPrevChapter \/ CallNextChapter \/ Return

SpecChapter == InitChapter /\ [][NextChapter]_vars

\* A BookLoader with any extension lists
InitLoad ==
    /\ loaders \in LoaderLists
    /\ lines = <<>>
    /\ kind = "default"
    /\ chapters = 1
    /\ current = 0
    /\ call = NoCall
    /\ ret = NoRet
    /\ ln = with_chars(<<>>)
    /\ trace = <<>>
    /\ pc = Idle
    /\ configuration = DefaultConfiguration
    /\ files = {}

NextLoad == CallLoad \/ CallSupport \/ Return

SpecLoad == InitLoad /\ [][NextLoad]_vars

\* A BookLoader whose first loader supports "t.t"
InitReading ==
    /\ loaders = << << <<46, 116>> >>, << <<46, 46>> >>,
                   << <<116, 116>>, <<116>> >>, << <<46, 46>> >> >>
    /\ lines = <<>>
    /\ kind = "default"
    /\ chapters = 1
    /\ current = 0
    /\ call = NoCall
    /\ ret = NoRet
    /\ ln = with_chars(<<>>)
    /\ trace = <<>>
    /\ pc = Idle
    /\ configuration = DefaultConfiguration
    /\ files = {}

NextReading == CallLoadBook \/ Return

SpecReading == InitReading /\ [][NextReading]_vars

\* Building a line: no book, no loader; the line starts as Line::new("")
InitLine ==
    /\ loaders = <<>>
    /\ lines = <<>>
    /\ kind = "default"
    /\ chapters = 1
    /\ current = 0
    /\ call = NoCall
    /\ ret = NoRet
    /\ ln = with_chars(<<>>)
    /\ trace = <<>>
    /\ pc = Idle
    /\ configuration = DefaultConfiguration
    /\ files = {}

NextLine == CallNew \/ CallConcat \/ CallPush \/ CallLen \/ Return

SpecLine == InitLine /\ [][NextLine]_vars

\* Word selection: any of the lines, no book, no loader
InitWord ==
    /\ loaders = <<>>
    /\ lines = <<>>
    /\ kind = "default"
    /\ chapters = 1
    /\ current = 0
    /\ call = NoCall
    /\ ret = NoRet
    /\ ln \in WordLines
    /\ trace = <<>>
    /\ pc = Idle
    /\ configuration = DefaultConfiguration
    /\ files = {}

NextWord == CallWordAtOffset \/ CallIsSplitter \/ Return

SpecWord == InitWord /\ [][NextWord]_vars

\* Links: a line without styles, no book, no loader
InitLink ==
    /\ loaders = <<>>
    /\ lines = <<>>
    /\ kind = "default"
    /\ chapters = 1
    /\ current = 0
    /\ call = NoCall
    /\ ret = NoRet
    /\ ln = with_chars(<<>>)
    /\ trace = <<>>
    /\ pc = Idle
    /\ configuration = DefaultConfiguration
    /\ files = {}

NextLink == CallPushStyle \/ CallLinkAt \/ CallLinkIter \/ Return

SpecLink == InitLink /\ [][NextLink]_vars

\* Pattern search: any of the lines, no book, no loader
InitSearch ==
    /\ loaders = <<>>
    /\ lines = <<>>
    /\ kind = "default"
    /\ chapters = 1
    /\ current = 0
    /\ call = NoCall
    /\ ret = NoRet
    /\ ln \in SearchLines
    /\ trace = <<>>
    /\ pc = Idle
    /\ configuration = DefaultConfiguration
    /\ files = {}

NextSearch == CallSearchPatternOnce \/ Return

SpecSearch == InitSearch /\ [][NextSearch]_vars

\* The scan of a line: any of the lines, no book, no loader
InitScan ==
    /\ loaders = <<>>
    /\ lines = <<>>
    /\ kind = "default"
    /\ chapters = 1
    /\ current = 0
    /\ call = NoCall
    /\ ret = NoRet
    /\ ln \in SearchLines
    /\ trace = <<>>
    /\ pc = Idle
    /\ configuration = DefaultConfiguration
    /\ files = {}

NextScan == CallSearchPattern \/ SearchPatternWhile \/ SearchPatternCallback \/ Return

SpecScan == InitScan /\ [][NextScan]_vars

\* The scan runs on: the code is synchronous, a step that can be taken is taken
SpecScanFair ==
    SpecScan /\ WF_vars(SearchPatternWhile) /\ WF_vars(SearchPatternCallback)

\* Style resolution: a line of three characters without styles
InitStyle ==
    /\ loaders = <<>>
    /\ lines = <<>>
    /\ kind = "default"
    /\ chapters = 1
    /\ current = 0
    /\ call = NoCall
    /\ ret = NoRet
    /\ ln = with_chars(<<119, 119, 119>>)
    /\ trace = <<>>
    /\ pc = Idle
    /\ configuration = DefaultConfiguration
    /\ files = {}

NextStyle == CallPushKind \/ CallCharStyleAt \/ Return

SpecStyle == InitStyle /\ [][NextStyle]_vars

\* Style ranges: every operation that builds a line
NextRanges == CallNew \/ CallConcat \/ CallPush \/ CallPushStyle \/ Return

SpecRanges == InitLink /\ [][NextRanges]_vars

\* Reading history: any history table, at most one file of it missing or all
\* of them, any current book
InitHistory ==
    /\ loaders = <<>>
    /\ lines = <<>>
    /\ kind = "default"
    /\ chapters = 1
    /\ current = 0
    /\ call = NoCall
    /\ ret = NoRet
    /\ ln = with_chars(<<>>)
    /\ trace = <<>>
    /\ pc = Idle
    /\ \E db \in Histories, cur \in 0..MaxRows :
        /\ cur <= Len(db) + 1
        /\ configuration = [DefaultConfiguration EXCEPT
                                !.history_db = db,
                                !.current = IF cur = 0 THEN None ELSE Some(cur)]
        /\ files \in {(1..Len(db)) \ {f} : f \in 0..Len(db)} \cup {{}}

NextHistory == CallHistory \/ CallLatestReading \/ Return

SpecHistory == InitHistory /\ [][NextHistory]_vars

\* Font size: any configured size from MIN_FONT_SIZE to MAX_FONT_SIZE
InitGui ==
    /\ loaders = <<>>
    /\ lines = <<>>
    /\ kind = "default"
    /\ chapters = 1
    /\ current = 0
    /\ call = NoCall
    /\ ret = NoRet
    /\ ln = with_chars(<<>>)
    /\ trace = <<>>
    /\ pc = Idle
    /\ \E size \in MIN_FONT_SIZE..MAX_FONT_SIZE :
        configuration = [DefaultConfiguration EXCEPT !.gui.font_size = size]
    /\ files = {}

NextGui == CtrlArrowUp \/ CtrlArrowDown \/ ZoomDelta \/ Return

SpecGui == InitGui /\ [][NextGui]_vars

(***************************************************************************)
(* Claims about Line equality (under SpecEq)                               *)
(***************************************************************************)
\* C1: a == b holds if and only if the character sequences of a and b are
\* identical; two lines of equal length that differ in a character are not
\* equal, and the style annotations never influence the result.
C1_EqIffSameChars ==
    call.op = "eq" => ret.value = (call.self.chars = call.other.chars)

(***************************************************************************)
(* Claims about range_highlight (under SpecHighlight)                      *)
(***************************************************************************)
IsHighlightCall == call.op = "range_highlight"

\* The two endpoints of the call in document order
FromFirst ==
    \/ call.from.line < call.to.line
    \/ call.from.line = call.to.line /\ call.from.offset < call.to.offset
Earlier == IF FromFirst THEN call.from ELSE call.to
Later == IF FromFirst THEN call.to ELSE call.from

\* The lines i..j (0-based) in full, each followed by a newline
RECURSIVE FullLines(_, _, _)
FullLines(ls, i, j) ==
    IF i > j THEN <<>> ELSE ls[i + 1].chars \o <<NL>> \o FullLines(ls, i + 1, j)

\* The text between (l1, o1) and (l2, e2 exclusive) with one newline between
\* each pair of consecutive lines of the span
JoinedText(ls, l1, o1, l2, e2) ==
    IF l1 = l2 THEN Slice(ls[l1 + 1], o1, e2)
    ELSE Slice(ls[l1 + 1], o1, len(ls[l1 + 1])) \o <<NL>>
         \o FullLines(ls, l1 + 1, l2 - 1) \o Slice(ls[l2 + 1], 0, e2)

\* Both endpoints lie inside the line collection
EndpointsInside ==
    /\ Later.line < Len(lines)
    /\ Earlier.offset <= len(lines[Earlier.line + 1])

\* The text of the result: nothing when there is no selection
RetText == IF ret.tag = "Some" THEN ret.text ELSE <<>>

\* C2: for endpoints inside the line collection the selected text is the slice
\* of the first line from offset1, every intermediate line in full and the
\* slice of the last line up to the exclusive end, with exactly one newline
\* between each pair of consecutive lines, also when a line's slice is empty.
C2_TextJoinsEveryLine ==
    (IsHighlightCall /\ EndpointsInside) =>
        RetText = JoinedText(lines, Earlier.line, Earlier.offset, Later.line,
                             Min(Later.offset + 1, len(lines[Later.line + 1])))

\* C3: range_highlight(a, b) and range_highlight(b, a) return the same result;
\* the highlight starts at the earlier endpoint, and the offset of the later
\* endpoint (the larger offset on one line) is the inclusive last character.
C3_OrderIndependent ==
    IsHighlightCall =>
        /\ ret = range_highlight(lines, call.to, call.from)
        /\ ret.tag = "Some" =>
            /\ ret.line = Earlier.line
            /\ ret.start = Earlier.offset
            /\ Later.line < Len(lines) =>
                /\ ret.line_to = Later.line
                /\ ret.end = Min(Later.offset + 1, len(lines[Later.line + 1]))

\* C3's case: the endpoints are given in reverse document order with the
\* smaller offset on the later line, and the selection spans lines
C3_Witness ==
    /\ IsHighlightCall
    /\ ret.tag = "Some"
    /\ call.from.line > call.to.line
    /\ call.from.offset < call.to.offset
    /\ \E i \in 1..Len(ret.text) : ret.text[i] = NL

C5_EndClamped ==
    (IsHighlightCall /\ ret.tag = "Some") =>
        LET n == Len(lines)
            l2 == Later.line
            o2 == Later.offset + 1
        IN  /\ l2 >= n =>
                /\ ret.line_to = n - 1
                /\ ret.end = len(lines[n])
                /\ len(lines[n]) > 0 =>
                    ret.text[Len(ret.text)] = lines[n].chars[len(lines[n])]
            /\ (l2 < n /\ o2 > len(lines[l2 + 1])) =>
                /\ ret.line_to = l2
                /\ ret.end = len(lines[l2 + 1])
            /\ (l2 < n /\ o2 <= len(lines[l2 + 1])) =>
                /\ ret.line_to = l2
                /\ ret.end = o2

\* C5's case: the end line is past a collection whose last line has more
\* characters than the offset given
C5_Witness ==
    /\ IsHighlightCall
    /\ ret.tag = "Some"
    /\ Later.line >= Len(lines)
    /\ Later.offset + 1 < len(lines[Len(lines)])
    /\ Earlier.line < Len(lines) - 1

(***************************************************************************)
(* Claims about BookLoader (under SpecLoad and SpecReading)                *)
(***************************************************************************)
\* `suffix` ends `str`
IsSuffix(suffix, str) ==
    \E k \in 0..Len(str) :
        /\ Len(str) - k = Len(suffix)
        /\ \A i \in 1..Len(suffix) : str[k + i] = suffix[i]

\* The filename with 'T' replaced by 't'
Lowered(filename) == [i \in 1..Len(filename) |-> IF filename[i] = 84 THEN 116 ELSE filename[i]]

\* Loader i has an extension that ends the lower-cased filename
Matches(i, filename) ==
    \E j \in 1..Len(loaders[i]) : IsSuffix(loaders[i][j], Lowered(filename))

\* C6: load on a filename no registered handler supports fails with 'Not
\* support open book', without invoking a handler's load_file or load_buf and
\* without opening the content source; no book is produced.
C6_UnsupportedFails ==
    (call.op = "load" /\ \A i \in 1..Len(loaders) : ~Matches(i, call.filename)) =>
        /\ ret.tag = "Err"
        /\ ret.error = "Not support open book"
        /\ ret.invoked = <<>>
        /\ ~ret.opened

\* C6's case: a filename with an extension of its own that no loader declares
C6_Witness ==
    /\ call.op = "load"
    /\ call.filename = <<116, 46, 84>>
    /\ ret.tag = "Err"
    /\ ret.error = "Not support open book"

\* The lines of the book the loader answered with
AnsweredLines == call.outcome.book.lines

\* C7: for a book with n >= 1 lines the returned line is the handler's line
\* when it is < n and n - 1 otherwise; the returned position is the handler's
\* position when it is < the character count of that line and 0 otherwise.
C7_ReadingClamped ==
    (call.op = "load" /\ call.outcome.kind = "ok" /\ Len(AnsweredLines) >= 1) =>
        LET n == Len(AnsweredLines)
            given == call.outcome.reading
            line == IF given.line < n THEN given.line ELSE n - 1
        IN  /\ ret.tag = "Ok"
            /\ ret.reading.line = line
            /\ ret.reading.position =
                 IF given.position < len(AnsweredLines[line + 1])
                 THEN given.position ELSE 0

\* C7's case: a line far past the end is clamped and a position inside the
\* clamped line is kept
C7_Witness ==
    /\ call.op = "load"
    /\ call.outcome.kind = "ok"
    /\ Len(AnsweredLines) = 3
    /\ call.outcome.reading.line > 3
    /\ ret.tag = "Ok"
    /\ ret.reading.line = 2
    /\ ret.reading.position = 1

\* C8: for every (book, reading) a handler returns, a book with zero lines
\* included, load returns Ok with chapter == book.current_chapter(),
\* line < lines.len() and position < the length of that line or position == 0.
C8_AlwaysRepaired ==
    (call.op = "load" /\ call.outcome.kind = "ok") =>
        /\ ret.tag = "Ok"
        /\ ret.reading.chapter = call.outcome.book.current_chapter
        /\ ret.reading.line < Len(AnsweredLines)
        /\ \/ ret.reading.position < len(AnsweredLines[ret.reading.line + 1])
           \/ ret.reading.position = 0

\* C9: support(filename) is true if and only if some registered handler has an
\* extension that is a suffix of the lower-cased filename, and load finds a
\* handler exactly when support(filename) is true.
C9_SupportIffSuffix ==
    /\ call.op = "support" =>
        ret.value = (\E i \in 1..Len(loaders) : Matches(i, call.filename))
    /\ call.op = "load" =>
        /\ (ret.tag = "Err" /\ ret.error = "Not support open book")
             <=> ~BookLoaderSupport(loaders, call.filename)
        /\ (call.outcome # NotAsked)
             <=> (\E i \in 1..Len(loaders) : Matches(i, call.filename))

\* C9's case: a filename in upper case is supported
C9_Witness ==
    /\ call.op = "support"
    /\ call.filename = <<84, 46, 84>>
    /\ ret.value

(***************************************************************************)
(* Claims about chapter navigation (under SpecChapter)                     *)
(***************************************************************************)
\* C10 as stated: the default goto_chapter returns Ok(None) when
\* index >= chapter_count(), and otherwise commits and returns
\* Ok(Some(index)), so that current_chapter() == index afterwards.
C10_GotoCommits ==
    (call.op = "goto_chapter" /\ kind = "default") =>
        IF call.index >= chapters
        THEN ret = None
        ELSE ret = Some(call.index) /\ current = call.index

\* C10, amended: the default goto_chapter returns Ok(None) when
\* index >= chapter_count() and Ok(Some(index)) otherwise, and leaves
\* current_chapter() as it was; with chapter_count() == 1 and
\* current_chapter() == 0, goto_chapter(0) returns Some(0), every other index
\* returns None, and current_chapter() is 0 afterwards.
C10_DefaultGotoReturnsIndex ==
    [][(call'.op = "goto_chapter" /\ kind = "default") =>
        /\ ret' = IF call'.index >= chapters THEN None ELSE Some(call'.index)
        /\ current' = current
        /\ (chapters = 1 /\ current = 0) =>
            /\ ret' = Some(0) <=> call'.index = 0
            /\ ret' = None <=> call'.index # 0
            /\ current' = 0]_vars

\* C10's case: the default goto_chapter is given a chapter that exists and is
\* not the current one
C10_Witness ==
    /\ call.op = "goto_chapter"
    /\ kind = "default"
    /\ ret = Some(call.index)
    /\ call.index = chapters - 1
    /\ current # call.index

\* The last call was a chapter navigation call
IsNavigation(op) == op \in {"goto_chapter", "prev_chapter", "next_chapter"}

\* What goto_chapter(index) gives on the book as it is: the result, and
\* current_chapter() afterwards
GotoResult(index) == IF index >= chapters THEN None ELSE Some(index)
GotoCurrent(index) ==
    IF kind = "override" /\ index < chapters THEN index ELSE current

\* C11: prev_chapter returns Ok(None) without calling goto_chapter when
\* current_chapter() == 0, and otherwise exactly goto_chapter(current - 1);
\* next_chapter returns exactly goto_chapter(current + 1), hence Ok(None) at
\* the last chapter.
C11_PrevNextViaGoto ==
    [][/\ call'.op = "prev_chapter" =>
            IF current = 0
            THEN ret' = None /\ trace' = <<>> /\ current' = current
            ELSE /\ trace' = <<current - 1>>
                 /\ ret' = GotoResult(current - 1)
                 /\ current' = GotoCurrent(current - 1)
       /\ call'.op = "next_chapter" =>
            /\ trace' = <<current + 1>>
            /\ ret' = GotoResult(current + 1)
            /\ current' = GotoCurrent(current + 1)
            /\ current = chapters - 1 => ret' = None]_vars

\* C11's case: prev_chapter at chapter 0 of a book with several chapters
C11_Witness ==
    /\ call.op = "prev_chapter"
    /\ kind = "override"
    /\ chapters > 1
    /\ current = 0
    /\ ret = None
    /\ trace = <<>>

\* C12: after any sequence of goto_chapter, next_chapter and prev_chapter calls
\* current_chapter() < chapter_count() holds, and every call that reports
\* Ok(None) leaves current_chapter() and the current lines unchanged.
C12_CurrentInRange ==
    /\ current < chapters
    /\ [][/\ current' < chapters'
          /\ (IsNavigation(call'.op) /\ ret' = None) =>
                (current' = current /\ lines' = lines)]_vars

\* C12's case: a book that has moved to its last chapter is asked for the
\* next one
C12_Witness ==
    /\ call.op = "next_chapter"
    /\ kind = "override"
    /\ ret = None
    /\ current = chapters - 1
    /\ Len(lines) = chapters
    /\ chapters > 1

(***************************************************************************)
(* Claims about building a line (under SpecLine)                           *)
(***************************************************************************)
\* C13: for every string s, Line::new(s).len() is the number of Unicode
\* scalar values of s, NUL included; Line::push(c) appends c and increases
\* len() by exactly 1 when c is not NUL, and leaves the line unchanged when c
\* is NUL.
C13_NewAndPush ==
    [][/\ call'.op = "new" =>
            /\ len(ln') = Len(call'.str)
            /\ ln'.chars = call'.str
       /\ call'.op = "push" =>
            IF call'.ch # 0
            THEN /\ len(ln') = len(ln) + 1
                 /\ ln'.chars = ln.chars \o <<call'.ch>>
                 /\ ln'.styles = ln.styles
            ELSE ln' = ln
       /\ call'.op = "len" => ret'.value = Len(ln.chars)]_vars

\* C13's case: NUL is pushed to a line of two characters, one of them a NUL
\* that Line::new kept and one of four bytes
C13_Witness ==
    /\ call.op = "push"
    /\ call.ch = 0
    /\ len(ln) = 2
    /\ \E i, j \in 1..2 : ln.chars[i] = 0 /\ ln.chars[j] = 128444

\* The characters of s since the last newline before the i-th, the i-th
\* included, are all ASCII whitespace
InLeadingRun(s, i) ==
    \A k \in 1..i : (\A j \in k..i : s[j] # 10) => IsAsciiWhitespace(s[k])

\* The positions of s whose character concat is to append
KeptPositions(s) ==
    {i \in 1..Len(s) : s[i] \notin {10, 13} /\ ~InLeadingRun(s, i)}

\* The characters of s at the positions in I, in order
Subsequence(s, I) ==
    LET at(k) == CHOOSE i \in I : Cardinality({j \in I : j < i}) = k - 1
    IN  [k \in 1..Cardinality(I) |-> s[at(k)]]

\* C14: Line::concat(s) appends the characters of s, in order, without its
\* carriage returns and newlines and without the runs of ASCII whitespace at
\* the start of s or directly after a newline; whitespace after a
\* non-whitespace character of the same source line is kept; what the line
\* held is unchanged.  Appending "  \n\tword" appends exactly "word".
C14_ConcatNormalises ==
    [][call'.op = "concat" =>
          /\ ln'.chars = ln.chars \o Subsequence(call'.str, KeptPositions(call'.str))
          /\ ln'.styles = ln.styles
          /\ \A i \in (len(ln) + 1)..len(ln') : ln'.chars[i] \notin {10, 13}
          /\ call'.str = ConcatExample =>
                ln'.chars = ln.chars \o <<119, 111, 114, 100>>]_vars

\* C14's case: "  \n\tword" was appended to a line that held a character
C14_Witness ==
    /\ call.op = "concat"
    /\ call.str = ConcatExample
    /\ ln.chars = <<20013, 119, 111, 114, 100>>

(***************************************************************************)
(* Claims about word selection (under SpecWord)                            *)
(***************************************************************************)
\* The splitter set: the 92 characters of the array
SplitterSet == {TEXT_SELECTION_SPLITTER[i] : i \in 1..Len(TEXT_SELECTION_SPLITTER)}

\* The inclusive bounds of the maximal run of characters around offset none
\* of which is in the splitter set
WordRun(chars, offset) ==
    LET free(a, b) == \A k \in a..b : chars[k + 1] \notin SplitterSet
        from == CHOOSE a \in 0..offset :
                    /\ free(a, offset)
                    /\ a > 0 => chars[a] \in SplitterSet
        to == CHOOSE b \in offset..(Len(chars) - 1) :
                    /\ free(offset, b)
                    /\ b + 1 < Len(chars) => chars[b + 2] \in SplitterSet
    IN  <<from, to>>

\* C15: word_at_offset(offset) returns None when offset >= len(), (offset,
\* offset) when the character at offset is in the splitter set, and otherwise
\* the inclusive bounds of the maximal run of characters around offset that
\* are not in the splitter set.  On "hello, world": offset 0 gives (0,4),
\* offset 5 gives (5,5), offset 7 gives (7,11).
C15_WordAtOffset ==
    call.op = "word_at_offset" =>
        /\ ret = IF call.offset >= len(ln) THEN None
                 ELSE IF ln.chars[call.offset + 1] \in SplitterSet
                      THEN Some(<<call.offset, call.offset>>)
                      ELSE Some(WordRun(ln.chars, call.offset))
        /\ ln.chars = HelloWorld =>
                /\ call.offset = 0 => ret = Some(<<0, 4>>)
                /\ call.offset = 5 => ret = Some(<<5, 5>>)
                /\ call.offset = 7 => ret = Some(<<7, 11>>)

\* C16: the 92 elements of TEXT_SELECTION_SPLITTER are in strictly ascending
\* code-point order, and the binary-search membership test finds every one
\* of them (tab and backslash included) and no character outside the array.
C16_SplitterSorted ==
    /\ Len(TEXT_SELECTION_SPLITTER) = 92
    /\ \A i \in 1..(Len(TEXT_SELECTION_SPLITTER) - 1) :
            TEXT_SELECTION_SPLITTER[i] < TEXT_SELECTION_SPLITTER[i + 1]
    /\ call.op = "is_splitter" => ret.value = (call.ch \in SplitterSet)

(***************************************************************************)
(* Claims about links (under SpecLink)                                     *)
(***************************************************************************)
\* The i-th style pushed (0-based) is a Link
IsLinkStyle(i) == i < Len(ln.styles) /\ ln.styles[i + 1][1].kind = "Link"

\* The Link of the i-th style pushed
LinkOf(i) == Link(i, ln.styles[i + 1][1].target, ln.styles[i + 1][2])

\* C17: link_at(i) returns a Link with index i and the target and range as
\* pushed if and only if the i-th pushed style is a Link, and None otherwise;
\* after push_style(Link("x"), 2..5) as the first style link_at(0) has target
\* "x" and range 2..5; for every Link l that link_iter visits, link_at(l.index)
\* yields the same target and range.
C17_LinkRoundTrip ==
    /\ [](/\ call.op = "link_at" =>
                /\ ret = IF IsLinkStyle(call.link_index)
                         THEN Some(LinkOf(call.link_index)) ELSE None
                /\ (Len(ln.styles) > 0 /\ ln.styles[1] = <<LinkStyle("x"), <<2, 5>>>>
                        /\ call.link_index = 0) =>
                      ret = Some([index |-> 0, target |-> "x", range |-> <<2, 5>>])
          /\ call.op = "link_iter" =>
                \A k \in 1..Len(trace) :
                    link_at(ln, trace[k].index) = Some(trace[k]))
    /\ [][call'.op = "push_style" =>
            /\ Len(ln'.styles) = Len(ln.styles) + 1
            /\ SubSeq(ln'.styles, 1, Len(ln.styles)) = ln.styles
            /\ ln'.styles[Len(ln'.styles)] = <<call'.style, call'.range>>
            /\ ln'.chars = ln.chars]_vars

\* C17's case: link_at(0) after Link("x"), 2..5 was pushed first and a style
\* of another kind after it
C17_Witness ==
    /\ call.op = "link_at"
    /\ call.link_index = 0
    /\ Len(ln.styles) = 2
    /\ ln.styles[1] = <<LinkStyle("x"), <<2, 5>>>>
    /\ ln.styles[2][1].kind # "Link"
    /\ ret = Some([index |-> 0, target |-> "x", range |-> <<2, 5>>])

\* i comes before j in the direction of the iteration
Before(i, j) == IF call.forward THEN i < j ELSE i > j

\* The insertion indexes of the Link styles, and those at which the callback
\* answers stop
LinkIndexes == {i \in 0..(Len(ln.styles) - 1) : IsLinkStyle(i)}
Stoppers == {i \in LinkIndexes : call.f[i].stop}

\* C18: link_iter gives the callback the Link styles in ascending insertion
\* index when forward and in descending insertion index when not, never a
\* style of another kind; it ends at the first callback that answers stop,
\* returns that callback's value and visits no further link; the result is
\* None when no callback answers stop.
C18_LinkIterOrder ==
    call.op = "link_iter" =>
        /\ \A k \in 1..Len(trace) :
                trace[k].index \in LinkIndexes /\ trace[k] = LinkOf(trace[k].index)
        /\ \A k, m \in 1..Len(trace) : k < m => Before(trace[k].index, trace[m].index)
        /\ {trace[k].index : k \in 1..Len(trace)} =
                {i \in LinkIndexes : \A j \in Stoppers : ~Before(j, i)}
        /\ IF Stoppers = {} THEN ret = None
           ELSE LET first == CHOOSE i \in Stoppers : \A j \in Stoppers : ~Before(j, i)
                IN  /\ trace[Len(trace)].index = first
                    /\ ret = IF call.f[first].found THEN Some(first) ELSE None

\* C18's case: backwards over link, title, link; the callback lets the last
\* link pass and stops at the first with a value
C18_Witness ==
    /\ call.op = "link_iter"
    /\ ~call.forward
    /\ Len(ln.styles) = 3
    /\ ln.styles[2][1].kind = "Title"
    /\ Len(trace) = 2
    /\ trace[1].index = 2
    /\ trace[2].index = 0
    /\ ret = Some(0)

(***************************************************************************)
(* Claims about pattern search (under SpecSearch)                          *)
(***************************************************************************)
IsSearchCall == call.op = "search_pattern_once"

\* The bounds of the search and the characters searched
SearchFrom == IF call.start = None THEN 0 ELSE call.start.value
SearchUpto == IF call.stop = None THEN Len(ln.chars) ELSE call.stop.value
BoundsInside == SearchFrom <= SearchUpto /\ SearchUpto <= Len(ln.chars)
Searched == SubSeq(ln.chars, SearchFrom + 1, SearchUpto)

\* The characters i..j of cs are a word of the pattern p
RECURSIVE InLanguage(_, _, _, _)
InLanguage(p, cs, i, j) ==
    CASE p.op = "lit" -> j = i + 1 /\ cs[j] = p.ch
      [] p.op = "cat" ->
            \E k \in i..j : InLanguage(p.left, cs, i, k) /\ InLanguage(p.right, cs, k, j)
      [] p.op = "alt" -> InLanguage(p.left, cs, i, j) \/ InLanguage(p.right, cs, i, j)
      [] p.op = "star" ->
            \/ i = j
            \/ \E k \in (i + 1)..j : InLanguage(p.arg, cs, i, k) /\ InLanguage(p, cs, k, j)
      [] p.op = "plus" ->
            \E k \in i..j :
                InLanguage(p.arg, cs, i, k) /\ InLanguage([op |-> "star", arg |-> p.arg], cs, k, j)

\* Every match of the pattern in the characters searched, as <<from, to>>
AllMatches ==
    {m \in (0..Len(Searched)) \X (0..Len(Searched)) :
        m[1] <= m[2] /\ InLanguage(call.regex, Searched, m[1], m[2])}

\* The character range of the line that a match of the engine stands for
RangeOf(m) ==
    <<SearchFrom + CharPosition(Utf8(Searched), m.start),
      SearchFrom + CharPosition(Utf8(Searched), m.end)>>

\* The matches the engine enumerates over the characters searched
Enumerated == find_iter(call.regex, Utf8(Searched))

\* C19: with rev == false search_pattern_once returns the first (left-most)
\* match of the pattern in the characters searched, with rev == true the last
\* of the matches enumerated over them, and None when there is no match.
\* Pattern a+ over "aa bb aaa" gives 0..2 forwards and 6..9 in reverse.
C19_SearchDirection ==
    (IsSearchCall /\ BoundsInside) =>
        /\ ret # Panic
        /\ (ret = None) = (AllMatches = {})
        /\ ret # None =>
            LET a == ret.value[1] - SearchFrom
                b == ret.value[2] - SearchFrom
            IN  /\ <<a, b>> \in AllMatches
                /\ ~call.rev =>
                    /\ ret.value = RangeOf(Enumerated[1])
                    /\ \A m \in AllMatches : a <= m[1]
                /\ call.rev =>
                    /\ ret.value = RangeOf(Enumerated[Len(Enumerated)])
                    /\ \A m \in AllMatches : m[1] >= b => m = <<b, b>>
        /\ (ln.chars = SearchExample /\ call.regex = Plus(Lit(97))
                /\ SearchFrom = 0 /\ SearchUpto = 9) =>
            ret = IF call.rev THEN Some(<<6, 9>>) ELSE Some(<<0, 2>>)

\* C19's case: a+ over all of "aa bb aaa" in reverse
C19_Witness ==
    /\ IsSearchCall
    /\ call.rev
    /\ call.regex = Plus(Lit(97))
    /\ ln.chars = SearchExample
    /\ call.start = None
    /\ call.stop = None
    /\ Len(Enumerated) = 2
    /\ ret = Some(<<6, 9>>)

\* C20: for a line of characters of 1 to 4 bytes and start <= stop <= len(),
\* a range [a, b) that search_pattern_once returns has start <= a <= b <= stop,
\* and the characters a..b of the line are the text the engine matched: its
\* byte offsets become character offsets before start is added.
C20_CharacterRanges ==
    (IsSearchCall /\ BoundsInside /\ ret # None) =>
        /\ ret # Panic
        /\ Len(trace) = 1
        /\ LET a == ret.value[1]
               b == ret.value[2]
               matched == SubSeq(Utf8(Searched), trace[1].start + 1, trace[1].end)
           IN  /\ SearchFrom <= a
               /\ a <= b
               /\ b <= SearchUpto
               /\ SubSeq(ln.chars, a + 1, b) = Chars(matched)

\* C20's case: a+ from character 1 of "é中a": the engine reports bytes 3..4 of
\* "中a", the result is 2..3
C20_Witness ==
    /\ IsSearchCall
    /\ ln.chars = <<233, 20013, 97>>
    /\ call.regex = Plus(Lit(97))
    /\ call.start = Some(1)
    /\ call.stop = None
    /\ trace = <<Match(3, 4)>>
    /\ ret = Some(<<2, 3>>)

(***************************************************************************)
(* Claims about the scan of a line (under SpecScan and SpecScanFair)       *)
(***************************************************************************)
IsScan == call.op = "search_pattern"

\* search_pattern has returned
ScanReturned == IsScan /\ pc = Idle

\* C21: when the callback returns an error on some match, the scan stops at
\* once, the callback is invoked for no later match, and search_pattern
\* returns that same error (Canceled stays Canceled, Custom(msg) stays
\* Custom(msg)); when the callback never fails the result is Ok(()).
C21_ScanCancelled ==
    IsScan =>
        /\ call.f.fail_at # 0 =>
            /\ Len(trace) <= call.f.fail_at
            /\ Len(trace) = call.f.fail_at => (pc = Idle /\ ret = Err(call.f.error))
        /\ (ScanReturned /\ ret.tag = "Err") =>
            /\ Len(trace) = call.f.fail_at
            /\ ret.value = call.f.error
        /\ (ScanReturned /\ call.f.fail_at \notin 1..Len(trace)) => ret = Ok(Unit)

\* C21's case: a+ over "aa bb aaa" with a callback that fails with Custom at
\* the first of the two matches
C21_Witness ==
    /\ ScanReturned
    /\ ln.chars = SearchExample
    /\ call.regex.pattern = Plus(Lit(97))
    /\ call.f = [fail_at |-> 1, error |-> Custom("chapter changed")]
    /\ trace = << <<0, 2>> >>
    /\ ret = Err(Custom("chapter changed"))

\* C27: for every line and every pattern, with a callback that always returns
\* Ok, search_pattern invokes the callback a finite number of times and
\* returns, patterns that match the empty string included.
C27_ScanTerminates ==
    [](IsScan /\ call.f.fail_at = 0 => <>(pc = Idle))

(***************************************************************************)
(* Claims about style resolution (under SpecStyle) and about the ranges    *)
(* of the styles (under SpecRanges)                                        *)
(***************************************************************************)
IsCharStyleAt == call # NoCall /\ call.op = "char_style_at"

\* The positions (from 1) of the styles of a kind that cover the index asked
Covering(k) ==
    {p \in 1..Len(ln.styles) :
        /\ ln.styles[p][1].kind = k
        /\ contains(ln.styles[p][2], call.char_index)}

\* What the style at position p gives the field of its kind
ValueAt(p) ==
    LET style == ln.styles[p][1]
        range == ln.styles[p][2]
    IN  CASE style.kind = "Title" -> Some(style.title)
          [] style.kind = "Border" -> Some(<<range, style>>)
          [] style.kind = "FontFamily" -> Some(style.families)
          [] style.kind = "Image" -> Some(style.image)
          [] style.kind = "Link" -> Some(<<p - 1, range>>)
          [] style.kind = "Color" -> Some(style.color)
          [] style.kind = "BackgroundColor" -> Some(style.color)

\* The field of the answer that a kind fills
FieldOf(k) ==
    CASE k = "Title" -> ret.title
      [] k = "Border" -> ret.border
      [] k = "FontFamily" -> ret.font_family
      [] k = "Image" -> ret.image
      [] k = "Link" -> ret.link

SingleValued == {"Title", "Border", "FontFamily", "Image", "Link"}

Last(S) == CHOOSE p \in S : \A q \in S : q <= p

\* C22: when two styles of the same single-valued kind (title, border, font
\* family, image, link) both cover a character index, char_style_at at that
\* index reports the value of the later-pushed one of the two.
C22_LastPushedWins ==
    IsCharStyleAt =>
        \A k \in SingleValued :
            Cardinality(Covering(k)) >= 2 => FieldOf(k) = ValueAt(Last(Covering(k)))

\* C23: with custom_color false, Color and BackgroundColor styles have no
\* effect: the background is None and the foreground is the default colour,
\* or the link colour when a Link style covers the index.  With custom_color
\* true and a Link and a Color both covering the index, the foreground is the
\* custom colour whatever the order they were pushed in.  A style whose range
\* does not contain the index never affects the answer: every field is that
\* of a covering style of its kind, or the initial one when there is none.
C23_Colours ==
    IsCharStyleAt =>
        LET plain == IF Covering("Link") # {} THEN Colors.link ELSE Colors.color
        IN  /\ ~call.custom_color => ret.background = None /\ ret.color = plain
            /\ call.custom_color /\ Covering("Color") # {} =>
                   Some(ret.color) \in {ValueAt(p) : p \in Covering("Color")}
            /\ call.custom_color /\ Covering("Color") = {} => ret.color = plain
            /\ call.custom_color =>
                   IF Covering("BackgroundColor") = {} THEN ret.background = None
                   ELSE ret.background \in {ValueAt(p) : p \in Covering("BackgroundColor")}
            /\ \A k \in SingleValued :
                   IF Covering(k) = {} THEN FieldOf(k) = None
                   ELSE FieldOf(k) \in {ValueAt(p) : p \in Covering(k)}

\* A Link pushed before a Color and one pushed after it, all three covering
\* the index asked, custom colours allowed: the custom colour is reported
C23_Witness ==
    /\ IsCharStyleAt
    /\ call.custom_color
    /\ call.char_index = 1
    /\ ln.styles = <<<<LinkStyle("x"), <<0, 2>>>>, <<ColorStyle("blue"), <<1, 3>>>>,
                     <<LinkStyle("y"), <<1, 3>>>>>>
    /\ ret.color = "blue"

\* C24: after any sequence of Line::new, concat, push and push_style calls,
\* every stored style range satisfies 0 <= start <= end <= len() of the line.
C24_RangesInside ==
    \A p \in 1..Len(ln.styles) :
        /\ 0 <= ln.styles[p][2][1]
        /\ ln.styles[p][2][1] <= ln.styles[p][2][2]
        /\ ln.styles[p][2][2] <= Len(ln.chars)

(***************************************************************************)
(* Claims about the handler BookLoader::load selects (under SpecLoad)      *)
(***************************************************************************)
\* The loaders that support the filename of the call, in registration order
Supporting == {i \in 1..Len(loaders) : Matches(i, call.filename)}

FirstSupporting == CHOOSE i \in Supporting : \A j \in Supporting : i <= j

\* C25: when more than one registered handler supports the filename, only
\* the first one in registration order is asked to load, and later handlers
\* are never invoked.
C25_FirstHandlerOnly ==
    (call.op = "load" /\ Cardinality(Supporting) > 1) =>
        /\ \A k \in 1..Len(ret.invoked) : ret.invoked[k] = FirstSupporting
        /\ Len(ret.invoked) <= 1
        /\ call.outcome.kind # "open_err" => ret.invoked = <<FirstSupporting>>

\* C25's case: the second, third and fourth loaders support "t" and the
\* second one alone is asked
C25_Witness ==
    /\ call.op = "load"
    /\ call.filename = <<116>>
    /\ Supporting = {2, 3, 4}
    /\ ret.tag = "Ok"
    /\ ret.invoked = <<2>>

\* The error that a failure of the content source or of the handler raises
ErrorOf(outcome) ==
    CASE outcome.kind = "open_err" -> "open"
      [] outcome.kind = "read_err" -> "read"
      [] outcome.kind = "parse_err" -> "parse"

\* C26: when opening or reading the content or the selected handler's parse
\* fails, load returns that same error to the caller, no other handler is
\* tried, and no (book, reading) pair is returned.
C26_FailurePropagates ==
    (call.op = "load" /\ call.outcome.kind \in {"open_err", "read_err", "parse_err"}) =>
        /\ ret.tag = "Err"
        /\ ret.error = ErrorOf(call.outcome)
        /\ \A k \in 1..Len(ret.invoked) : ret.invoked[k] = FirstSupporting
        /\ Len(ret.invoked) <= 1
        /\ "book" \notin DOMAIN ret
        /\ "reading" \notin DOMAIN ret

\* C26's case: the first of two supporting loaders fails to parse and the
\* other one is left alone
C26_Witness ==
    /\ call.op = "load"
    /\ call.outcome.kind = "parse_err"
    /\ Supporting = {1, 3}
    /\ ret.tag = "Err"
    /\ ret.error = "parse"
    /\ ret.invoked = <<1>>

(***************************************************************************)
(* Claim about the bounds of a highlight (under SpecHighlight)             *)
(***************************************************************************)
\* C28: for every line collection and every pair of positions, those past
\* the end of the collection or of a line included, whenever range_highlight
\* returns a highlight its start line is a valid index, start line <= end
\* line < lines.len(), start <= the length of the start line and end <= the
\* length of the end line.
C28_HighlightInside ==
    (call.op = "range_highlight" /\ ret # None) =>
        /\ ret.line < Len(lines)
        /\ ret.line <= ret.line_to
        /\ ret.line_to < Len(lines)
        /\ ret.start <= len(lines[ret.line + 1])
        /\ ret.end <= len(lines[ret.line_to + 1])

(***************************************************************************)
(* Claim about the font size (under SpecGui)                               *)
(***************************************************************************)
IsFontSizeCommand == call.op \in {"ctrl_up", "ctrl_down", "zoom_in", "zoom_out"}

\* C29: for any configured starting size within [MIN_FONT_SIZE,
\* MAX_FONT_SIZE] = [20, 50], after any sequence of zoom-in / zoom-out
\* commands the configured font_size stays within [20, 50]; each command
\* changes it by exactly 2 or leaves it unchanged.
C29_FontSizeBounded ==
    /\ configuration.gui.font_size >= 20
    /\ configuration.gui.font_size <= 50
    /\ IsFontSizeCommand =>
           configuration.gui.font_size - call.before \in {-2, 0, 2}

(***************************************************************************)
(* Claims about the reading history (under SpecHistory)                    *)
(***************************************************************************)
\* The rows whose file exists
Existing == {r \in Rows(configuration.history_db) : r.filename \in files}

\* The rows history() may list: the file exists and is not the current book
Listable ==
    {r \in Existing :
        configuration.current = None \/ r.filename # configuration.current.value}

\* history() lists at most 20 rows, from the most recently saved to the
\* oldest, none of them the current book's: the 20 newest listable rows
HistoryListed ==
    call.op = "history" =>
        LET list == ret.value
        IN  /\ ret.tag = "Ok"
            /\ Len(list) = Min(20, Cardinality(Listable))
            /\ \A i \in 1..Len(list) : list[i] \in Listable
            /\ \A i \in 1..Len(list), j \in 1..Len(list) :
                   i < j => list[i].ts >= list[j].ts /\ list[i] # list[j]
            /\ \A r \in Listable :
                   (\A i \in 1..Len(list) : list[i] # r) =>
                       \A i \in 1..Len(list) : list[i].ts >= r.ts

\* C30 as stated: history() returns at most 20 entries, ordered by
\* last-saved timestamp from most recent to oldest, never containing the
\* entry whose filename equals configuration.current; latest_reading()
\* returns the single most recently saved entry (or None when the history is
\* empty) without excluding the current file.
C30_Original ==
    /\ call.op = "history" =>
           /\ Len(ret.value) <= 20
           /\ \A i \in 1..Len(ret.value), j \in 1..Len(ret.value) :
                  i < j => ret.value[i].ts >= ret.value[j].ts
           /\ \A i \in 1..Len(ret.value) :
                  configuration.current # Some(ret.value[i].filename)
    /\ call.op = "latest_reading" =>
           IF configuration.history_db = <<>> THEN ret = Ok(None)
           ELSE /\ ret.tag = "Ok"
                /\ ret.value # None
                /\ ret.value.value \in Newest(Rows(configuration.history_db))

\* C30, amended: history() returns the 20 most recently saved entries (fewer
\* when there are fewer) among those whose file exists and is not
\* configuration.current, from the most recent to the oldest;
\* latest_reading() returns a most recently saved entry among those whose
\* file exists (None when there is none) without excluding the current file.
C30_HistoryOfExistingFiles ==
    /\ HistoryListed
    /\ call.op = "latest_reading" =>
           IF Existing = {} THEN ret = Ok(None)
           ELSE /\ ret.tag = "Ok"
                /\ ret.value # None
                /\ ret.value.value \in Newest(Existing)

\* C30's case: the newest entry's file is gone and latest_reading answers
\* with the next one, which is the current book
C30_Witness ==
    /\ call.op = "latest_reading"
    /\ Len(configuration.history_db) = 3
    /\ files = {1, 2}
    /\ configuration.current = Some(2)
    /\ ret = Ok(Some([row_id |-> 2, filename |-> 2, ts |-> 2]))

====
